---- MODULE Spec2Model ----
(***************************************************************************)
(* Model of the DeFi contract collector: the contract resolver             *)
(* (contract_finder.py), the interface retriever (abi_fetcher.py), the     *)
(* signature extractor (event_extractor.py) and the collection             *)
(* orchestrator (main.py).                                                 *)
(*                                                                         *)
(* Python strings are TLA+ strings; Len, \o and SubSeq act on them.        *)
(* Python integers too wide for the checker (the 160-bit address value)    *)
(* are kept as strings of hexadecimal digits, most significant first, and  *)
(* the arithmetic the code does on them is done digit by digit.            *)
(***************************************************************************)
EXTENDS Integers, Sequences, FiniteSets, TLC

VARIABLES
    pc,                 \* position of the flow being modelled
    protocol,           \* process_protocol / find_contracts: protocol name
    network,            \* network name
    category,           \* process_protocol: the work item's category
    hashv,              \* the value hash() gives the fallback tier in this process
    contracts,          \* candidates returned by find_contracts / given to the batch
    contract_address,   \* fetch_abi: the address looked up
    contract_name,      \* process_protocol: the candidate's name
    response,           \* _fetch_from_explorer: what the explorer call did
    abi_data,           \* the interface result (None when absent)
    requests,           \* number of explorer requests issued by the current fetch_abi
    protocols,          \* collect_all_protocols: the worklist
    i,                  \* collect_all_protocols: enumerate(protocols, 1) index
    c,                  \* process_protocol: index of the candidate in contracts
    protocol_results,   \* process_protocol: records built for the current work item
    all_results,        \* collect_all_protocols: accumulated records
    files,              \* save_json calls so far, in order
    tasks,              \* batch_fetch_abis: state of each fetch_single task
    semaphore,          \* batch_fetch_abis: free permits of the semaphore
    results,            \* batch_fetch_abis: the mapping returned
    abi_arg,            \* extract_events: the abi argument
    signatures,         \* the list extract_events returns / categorize_events is given
    valid,              \* validate_event_signature of each signature
    categories,         \* the dict returned by categorize_events
    details             \* the list get_event_details returns

findVars  == <<protocol, network, category, hashv, contracts>>
fetchVars == <<contract_address, contract_name, response, abi_data, requests>>
orchVars  == <<protocols, i, c, protocol_results, all_results, files>>
batchVars == <<tasks, semaphore, results>>
extractVars == <<abi_arg, signatures, valid, categories, details>>
vars == <<pc, findVars, fetchVars, orchVars, batchVars, extractVars>>

----------------------------------------------------------------------------
(* Python string operations *)

Min(a, b) == IF a < b THEN a ELSE b

Ch(s, k) == SubSeq(s, k, k)

\* s[:n]
Prefix(s, n) == SubSeq(s, 1, Min(n, Len(s)))

\* s[-n:] for n <= len(s)
Suffix(s, n) == SubSeq(s, Len(s) - n + 1, Len(s))

HEXDIGITS == "0123456789abcdef"

\* position of a character in an alphabet, 0 when absent
IndexIn(ch, alphabet) ==
    IF \E k \in 1..Len(alphabet) : Ch(alphabet, k) = ch
    THEN CHOOSE k \in 1..Len(alphabet) : Ch(alphabet, k) = ch
    ELSE 0

ToLower ==
    "A" :> "a" @@ "B" :> "b" @@ "C" :> "c" @@ "D" :> "d" @@ "E" :> "e" @@ "F" :> "f" @@
    "G" :> "g" @@ "H" :> "h" @@ "I" :> "i" @@ "J" :> "j" @@ "K" :> "k" @@ "L" :> "l" @@
    "M" :> "m" @@ "N" :> "n" @@ "O" :> "o" @@ "P" :> "p" @@ "Q" :> "q" @@ "R" :> "r" @@
    "S" :> "s" @@ "T" :> "t" @@ "U" :> "u" @@ "V" :> "v" @@ "W" :> "w" @@ "X" :> "x" @@
    "Y" :> "y" @@ "Z" :> "z"

ToUpper ==
    "a" :> "A" @@ "b" :> "B" @@ "c" :> "C" @@ "d" :> "D" @@ "e" :> "E" @@ "f" :> "F" @@
    "g" :> "G" @@ "h" :> "H" @@ "i" :> "I" @@ "j" :> "J" @@ "k" :> "K" @@ "l" :> "L" @@
    "m" :> "M" @@ "n" :> "N" @@ "o" :> "O" @@ "p" :> "P" @@ "q" :> "Q" @@ "r" :> "R" @@
    "s" :> "S" @@ "t" :> "T" @@ "u" :> "U" @@ "v" :> "V" @@ "w" :> "W" @@ "x" :> "X" @@
    "y" :> "Y" @@ "z" :> "Z"

IsUpper(ch) == ch \in DOMAIN ToLower
IsLower(ch) == ch \in DOMAIN ToUpper
IsCased(ch) == IsUpper(ch) \/ IsLower(ch)
LowerCh(ch) == IF IsUpper(ch) THEN ToLower[ch] ELSE ch
UpperCh(ch) == IF IsLower(ch) THEN ToUpper[ch] ELSE ch

RECURSIVE LowerFrom(_, _)
LowerFrom(s, k) ==
    IF k > Len(s) THEN "" ELSE LowerCh(Ch(s, k)) \o LowerFrom(s, k + 1)

\* str.lower()
lower(s) == LowerFrom(s, 1)

RECURSIVE TitleFrom(_, _, _)
TitleFrom(s, k, prevCased) ==
    IF k > Len(s) THEN ""
    ELSE LET ch == Ch(s, k)
         IN  (IF prevCased THEN LowerCh(ch) ELSE UpperCh(ch))
                 \o TitleFrom(s, k + 1, IsCased(ch))

\* str.title(): a cased character is upper-cased after an uncased one (or at
\* the start) and lower-cased after a cased one
title(s) == TitleFrom(s, 1, FALSE)

RECURSIVE ReplaceFrom(_, _, _, _)
ReplaceFrom(s, k, old, new) ==
    IF k > Len(s) THEN ""
    ELSE (IF Ch(s, k) = old THEN new ELSE Ch(s, k)) \o ReplaceFrom(s, k + 1, old, new)

\* str.replace(old, new) for a one-character old
replace(s, old, new) == ReplaceFrom(s, 1, old, new)

\* keyword in s
Contains(s, keyword) ==
    \E k \in 1..(Len(s) - Len(keyword) + 1) :
        SubSeq(s, k, k + Len(keyword) - 1) = keyword

\* any(keyword in s for keyword in keywords)
AnyKeyword(s, keywords) == \E keyword \in keywords : Contains(s, keyword)

RECURSIVE Repeat(_, _)
\* ch * n
Repeat(ch, n) == IF n <= 0 THEN "" ELSE ch \o Repeat(ch, n - 1)

----------------------------------------------------------------------------
(* Wide non-negative integers as strings of hex digits, most significant   *)
(* first, without leading zeros (zero is "0").                             *)

HexVal(ch) == IndexIn(ch, HEXDIGITS) - 1
HexCh(v) == Ch(HEXDIGITS, v + 1)

RECURSIVE StripZeros(_)
StripZeros(d) ==
    IF Len(d) > 1 /\ Ch(d, 1) = "0" THEN StripZeros(Tail(d)) ELSE d

\* d zero-padded on the left to at least w digits
ZeroPad(d, w) == Repeat("0", w - Len(d)) \o d

RECURSIVE IncDigits(_)
\* d + 1 on a digit string; the result is one digit longer on overflow
IncDigits(d) ==
    IF Len(d) = 0 THEN "1"
    ELSE LET last == Ch(d, Len(d))
             init == SubSeq(d, 1, Len(d) - 1)
         IN  IF last = "f" THEN IncDigits(init) \o "0"
             ELSE init \o HexCh(HexVal(last) + 1)

RECURSIVE ComplementFrom(_, _)
ComplementFrom(d, k) ==
    IF k > Len(d) THEN ""
    ELSE HexCh(15 - HexVal(Ch(d, k))) \o ComplementFrom(d, k + 1)

\* n % (16**w) for n >= 0
ModPow16(d, w) == StripZeros(IF Len(d) > w THEN Suffix(d, w) ELSE d)

\* (-m) % (16**w) for 0 < m < 16**w, which Python defines as 16**w - m:
\* the digit-wise complement of m is 16**w - 1 - m
NegModPow16(m, w) == ModPow16(IncDigits(ComplementFrom(ZeroPad(m, w), 1)), w)

\* f"{n:0{w}x}": at least w digits, never truncated
FormatHex(d, w) == ZeroPad(d, w)

----------------------------------------------------------------------------
(* contract_finder.py: ContractFinder *)

known_contracts ==
    "aave_ethereum" :> <<
        [address |-> "0x7d2768dE32b0b80b7a3454c06BdAc94A69DDc7A9", name |-> "LendingPool"],
        [address |-> "0xB53C1a33016B2DC2fF3653530bfF1848a515c8c5", name |-> "LendingPoolAddressesProvider"],
        [address |-> "0x057835Ad21a177dbdd3090bB1CAE03EaCF78Fc6d", name |-> "LendingPoolCore"] >> @@
    "uniswap_ethereum" :> <<
        [address |-> "0x5C69bEe701ef814a2B6a3EDD4B1652CB9cc5aA6f", name |-> "UniswapV2Factory"],
        [address |-> "0x7a250d5630B4cF539739dF2C5dAcb4c659F2488D", name |-> "UniswapV2Router02"],
        [address |-> "0x1F98431c8aD98523631AE4a59f267346ea31F984", name |-> "UniswapV3Factory"],
        [address |-> "0xE592427A0AEce92De3Edee1F18E0157C05861564", name |-> "UniswapV3Router"] >> @@
    "compound_ethereum" :> <<
        [address |-> "0x3d9819210A31b4961b30EF54bE2aeD79B9c9Cd3B", name |-> "Comptroller"],
        [address |-> "0x5d3a536E4D6DbD6114cc1Ead35777bAB948E3643", name |-> "cDAI"],
        [address |-> "0x4Ddc2D193948926D02f9B1fE9e1daa0718270ED5", name |-> "cETH"],
        [address |-> "0x39AA39c021dfbAe8faC545936693aC917d5E7563", name |-> "cUSDC"] >> @@
    "curve_ethereum" :> <<
        [address |-> "0x90E00ACe148ca3b23Ac1bC8C240C2a7Dd9c2d7f5", name |-> "CurveRegistry"],
        [address |-> "0x7002B727Ef8F5571Cb5F9D70D13DBEEb4dFAe9d1", name |-> "CurveFactory"],
        [address |-> "0xbebc44782c7db0a1a60cb6fe97d0b483032ff1c7", name |-> "3PoolCurve"] >> @@
    "makerdao_ethereum" :> <<
        [address |-> "0x35D1b3F3D7966A1DFe207aa4514C12a259A0492B", name |-> "MakerDAOVault"],
        [address |-> "0x9f8F72aA9304c8B593d555F12eF6589cC3A579A2", name |-> "MKRToken"] >> @@
    "sushiswap_ethereum" :> <<
        [address |-> "0xC0AEe478e3658e2610c5F7A4A2E1777cE9e4f2Ac", name |-> "SushiSwapFactory"],
        [address |-> "0xd9e1cE17f2641f24aE83637ab66a2cca9C378B9F", name |-> "SushiSwapRouter"] >> @@
    "aave_polygon" :> <<
        [address |-> "0x8dFf5E27EA6b7AC08EbFdf9eB090F32ee9a30fcf", name |-> "LendingPool"],
        [address |-> "0x7b6F1eE6b1a8cE4b5c5c5c5c5c5c5c5c5c5c5c5c", name |-> "LendingPoolAddressesProvider"] >> @@
    "sushiswap_polygon" :> <<
        [address |-> "0xc35DADB65012eC5796536bD9864eD8773aBc74C4", name |-> "SushiSwapFactory"],
        [address |-> "0x1b02dA8Cb0d097eB8D57A175b88c7D8b47997506", name |-> "SushiSwapRouter"] >> @@
    "quickswap_polygon" :> <<
        [address |-> "0x5757371414417b8C6CAad45bAeF941aBc7d3Ab32", name |-> "QuickSwapFactory"],
        [address |-> "0xa5E0829CaCEd8fFDD4De3c43696c57F7D7A678ff", name |-> "QuickSwapRouter"] >> @@
    "pancakeswap_bsc" :> <<
        [address |-> "0xcA143Ce32Fe78f1f7019d7d551a6402fC5350c73", name |-> "PancakeSwapFactory"],
        [address |-> "0x10ED43C718714eb63d5aA57B78B54704E256024E", name |-> "PancakeSwapRouter"] >> @@
    "venus_bsc" :> <<
        [address |-> "0xfD36E2c2a6789Db23113685031d7F16329158384", name |-> "VenusComptroller"],
        [address |-> "0xe9e7CEA3DedcA5984780Bafc599bD69ADd087D56", name |-> "vBUSD"] >> @@
    "aave_arbitrum" :> <<
        [address |-> "0x794a61358D6845594F94dc1DB02A252b5b4814aD", name |-> "LendingPool"],
        [address |-> "0xa97684ead0e402dC232d5A977953DF7ECBaB3CDb", name |-> "LendingPoolAddressesProvider"] >> @@
    "camelot_v2_arbitrum" :> <<
        [address |-> "0xc873fEcbd354f5A56E00E00B544dEa1A0B8f8D9D", name |-> "CamelotV2Factory"],
        [address |-> "0xc35DADB65012eC5796536bD9864eD8773aBc74C4", name |-> "CamelotV2Router"] >> @@
    "gmx_arbitrum" :> <<
        [address |-> "0x4e71A6382eC1B1839a08B8b0a5D9414dA2f4fBf2", name |-> "GMXRouter"],
        [address |-> "0x90d61eA9D10aD7489f7cF2e0F2A8cB8D0cB8c8c8", name |-> "GMXVault"] >> @@
    "treasuredao_arbitrum" :> <<
        [address |-> "0x6B175474E89094C44Da98b954EedeAC495271d0F", name |-> "MAGICToken"],
        [address |-> "0x1B8b64D8F4eA4c8a4c8a4c8a4c8a4c8a4c8a4c8a", name |-> "TreasureDAOFarm"] >> @@
    "arbius_arbitrum" :> <<
        [address |-> "0x4a24b101728e07a52053c13fb4db2bcf490cabc3", name |-> "ArbiusBaseToken"] >> @@
    "beanstalk_arbitrum" :> <<
        [address |-> "0xd1a0060ba708bc4bcd3da6c37efa8dedf015fb70", name |-> "BeanstalkDiamondCutFacet"] >> @@
    "gmcash_arbitrum" :> <<
        [address |-> "0x654c908305021b2eaf881cee774ece1d2bcac5fc", name |-> "GMCashToken"] >> @@
    "chronos_v1_arbitrum" :> <<
        [address |-> "0x4E352cF164E64ADDA23F02e0e4fE9eE1c8aE5f5A", name |-> "ChronosV1Factory"],
        [address |-> "0x18aBa6B4e6a92dD3b07B4B0C7A4a4b0C7A4a4b0C", name |-> "ChronosV1Router"] >> @@
    "chronos_v2_arbitrum" :> <<
        [address |-> "0xC8418F0d7C52F5b1C9aB6d4e7c8d9e0f1a2b3c4d", name |-> "ChronosV2Factory"],
        [address |-> "0xD0E5C4aF4b4b4b4b4b4b4b4b4b4b4b4b4b4b4b4b", name |-> "ChronosV2Router"] >> @@
    "gridex_arbitrum" :> <<
        [address |-> "0x2e1e7A4b4e4f4f4f4f4f4f4f4f4f4f4f4f4f4f4f", name |-> "GridexV1Core"],
        [address |-> "0x3f3f3f3f3f3f3f3f3f3f3f3f3f3f3f3f3f3f3f3f", name |-> "GridexV1Router"] >> @@
    "gyroscope_protocol_arbitrum" :> <<
        [address |-> "0x8e2e0D5B4E4F4F4F4F4F4F4F4F4F4F4F4F4F4F4F", name |-> "GyroscopeVault"],
        [address |-> "0x9f9f9f9f9f9f9f9f9f9f9f9f9f9f9f9f9f9f9f9f", name |-> "GyroscopeRouter"] >> @@
    "velodrome_v2_optimism" :> <<
        [address |-> "0xF1046053a665B31C5D28e8D34dE4684A54b2D2a8", name |-> "VelodromeV2Factory"],
        [address |-> "0x7E01d4eE1cC7a9c0c6a8a7e8a9b0c1d2e3f4a5b", name |-> "VelodromeV2Router"] >> @@
    "synthetix_optimism" :> <<
        [address |-> "0x8700dAec35aF8fD88D226aBA8E0e8F8E9b0a1c2d", name |-> "SynthetixDebtManager"],
        [address |-> "0x8bA1f109551bD432803012645Ac136dd64DBA175", name |-> "SynthetixSNXToken"] >> @@
    "aerodrome_base" :> <<
        [address |-> "0xc5d5D0c6e5D5D0c6e5D5D0c6e5D5D0c6e5D5D0c6", name |-> "AerodromeFactory"],
        [address |-> "0xd5d5D0c6e5D5D0c6e5D5D0c6e5D5D0c6e5D5D0c6", name |-> "AerodromeRouter"] >> @@
    "uniswap_base" :> <<
        [address |-> "0x33128a8fC17869897dcE68Ed026d694621f6FDfD", name |-> "UniswapV3Factory"],
        [address |-> "0x2626664c2603336E57B271c5C0b26F421741e481", name |-> "UniswapV3Router"] >>

\* _get_protocol_category with the dex keywords tried before the lending ones
get_protocol_category_dex_first(p) ==
    LET protocol_lower == lower(p)
    IN  IF AnyKeyword(protocol_lower, {"dex", "swap", "exchange", "trade"}) THEN "dexs"
        ELSE IF AnyKeyword(protocol_lower, {"lending", "borrow", "lend"}) THEN "lending"
        ELSE IF AnyKeyword(protocol_lower, {"bridge", "crosschain", "transfer"}) THEN "bridge"
        ELSE IF AnyKeyword(protocol_lower, {"stake", "yield", "farm", "pool"}) THEN "staking"
        ELSE "other"

\* ContractFinder._get_protocol_category
get_protocol_category(p) ==
    LET protocol_lower == lower(p)
    IN  IF AnyKeyword(protocol_lower, {"lending", "borrow", "lend"}) THEN "lending"
        ELSE IF AnyKeyword(protocol_lower, {"dex", "swap", "exchange", "trade"}) THEN "dexs"
        ELSE IF AnyKeyword(protocol_lower, {"bridge", "crosschain", "transfer"}) THEN "bridge"
        ELSE IF AnyKeyword(protocol_lower, {"stake", "yield", "farm", "pool"}) THEN "staking"
        ELSE "other"

\* f"0x{protocol[:6]}{network[:4]}{digit * 30}"
template_address(p, n, digit) ==
    "0x" \o Prefix(p, 6) \o Prefix(n, 4) \o Repeat(digit, 30)

\* ContractFinder._find_lending_contracts
find_lending_contracts(p, n) ==
    << [address |-> template_address(p, n, "0"), name |-> title(p) \o "LendingPool"],
       [address |-> template_address(p, n, "1"), name |-> title(p) \o "AddressProvider"] >>

\* ContractFinder._find_dex_contracts
find_dex_contracts(p, n) ==
    << [address |-> template_address(p, n, "0"),
        name |-> title(replace(p, "_", " ")) \o "Factory"],
       [address |-> template_address(p, n, "1"),
        name |-> title(replace(p, "_", " ")) \o "Router"] >>

\* ContractFinder._find_bridge_contracts
find_bridge_contracts(p, n) ==
    << [address |-> template_address(p, n, "0"), name |-> title(p) \o "Bridge"],
       [address |-> template_address(p, n, "1"), name |-> title(p) \o "Router"] >>

\* ContractFinder._find_staking_contracts
find_staking_contracts(p, n) ==
    << [address |-> template_address(p, n, "0"), name |-> title(p) \o "StakingPool"],
       [address |-> template_address(p, n, "1"), name |-> title(p) \o "RewardDistributor"] >>

\* hash(s) % (16**40) for a hash value h = [neg, mag]: Python's % takes the
\* sign of the modulus, so a negative hash -mag gives 16**40 - mag
base_hash_of(h) ==
    IF h.neg THEN NegModPow16(h.mag, 40) ELSE ModPow16(h.mag, 40)

\* ContractFinder._generate_fallback_contracts; h is hash(f"{protocol}_{network}")
generate_fallback_contracts(p, n, h) ==
    LET base_hash == base_hash_of(h)
        main == << [address |-> "0x" \o FormatHex(base_hash, 40),
                    name |-> title(replace(p, "_", "")) \o "Main"] >>
    IN  IF AnyKeyword(lower(p), {"dex", "swap", "exchange"})
        THEN Append(main,
                    [address |-> "0x" \o FormatHex(ModPow16(IncDigits(base_hash), 40), 40),
                     name |-> title(replace(p, "_", "")) \o "Router"])
        ELSE main

\* find_contracts with the category tier consulted before the registry
find_contracts_category_first(p, n, h) ==
    LET key == p \o "_" \o n
        cat == get_protocol_category(p)
    IN  IF cat = "lending" THEN find_lending_contracts(p, n)
        ELSE IF cat = "dexs" THEN find_dex_contracts(p, n)
        ELSE IF cat = "bridge" THEN find_bridge_contracts(p, n)
        ELSE IF cat = "staking" THEN find_staking_contracts(p, n)
        ELSE IF key \in DOMAIN known_contracts THEN known_contracts[key]
        ELSE generate_fallback_contracts(p, n, h)

\* ContractFinder.find_contracts
find_contracts(p, n, h) ==
    LET key == p \o "_" \o n
    IN  IF key \in DOMAIN known_contracts THEN known_contracts[key]
        ELSE LET cat == get_protocol_category(p)
             IN  IF cat = "lending" THEN find_lending_contracts(p, n)
                 ELSE IF cat = "dexs" THEN find_dex_contracts(p, n)
                 ELSE IF cat = "bridge" THEN find_bridge_contracts(p, n)
                 ELSE IF cat = "staking" THEN find_staking_contracts(p, n)
                 ELSE generate_fallback_contracts(p, n, h)

\* The values hash() of a str can take: a signed 64-bit integer that depends on
\* the process's hash seed, never -1.  Sign and magnitude (hex digits).
HashValues ==
    { [neg |-> FALSE, mag |-> "0"],
      [neg |-> FALSE, mag |-> "1f"],
      [neg |-> FALSE, mag |-> "7fffffffffffffff"],
      [neg |-> TRUE,  mag |-> "2"],
      [neg |-> TRUE,  mag |-> "10"],
      [neg |-> TRUE,  mag |-> "8000000000000000"] }

----------------------------------------------------------------------------
(* Values of the variables a flow does not use *)

NoneData == [none |-> TRUE]
NoHash == [neg |-> FALSE, mag |-> "0"]
NoResponse == [kind |-> "none", status |-> 0, data_status |-> "", result |-> ""]

IdleFind  == protocol = "" /\ network = "" /\ category = "" /\ hashv = NoHash
                 /\ contracts = <<>>
IdleFetch == contract_address = "" /\ contract_name = "" /\ response = NoResponse
                 /\ abi_data = NoneData /\ requests = 0
IdleOrch  == protocols = <<>> /\ i = 0 /\ c = 0 /\ protocol_results = <<>>
                 /\ all_results = <<>> /\ files = <<>>
IdleBatch == tasks = <<>> /\ semaphore = 0 /\ results = <<>>
IdleExtract == abi_arg = NoneData /\ signatures = <<>> /\ valid = <<>> /\ categories = <<>>
                 /\ details = <<>>

----------------------------------------------------------------------------
(* find_contracts as a function of its inputs *)

\* Protocol names given to find_contracts: names of the registry, names of the
\* sample worklist (utils.py), names that match one, several or no category
\* keyword, short names and the empty name.
FindProtocols ==
    { "aave", "sushiswap", "uniswap", "pancakeswap", "camelot_v2",
      "multichain", "vaultcraft", "jupiter_staked_sol", "increment_protocol",
      "lend", "Borrow_Dex", "transferpool", "yield", "dex", "x", "" }

FindNetworks == { "ethereum", "polygon", "bsc", "arbitrum", "base", "solana", "" }

InitFind ==
    /\ pc = "find"
    /\ protocol \in FindProtocols
    /\ network \in FindNetworks
    /\ hashv \in HashValues
    /\ category = ""
    /\ contracts = <<>>
    /\ IdleFetch /\ IdleOrch /\ IdleBatch /\ IdleExtract

\* contracts = await self.contract_finder.find_contracts(protocol, network)
FindContracts ==
    /\ pc = "find"
    /\ contracts' = find_contracts(protocol, network, hashv)
    /\ pc' = "found"
    /\ UNCHANGED <<protocol, network, category, hashv, fetchVars, orchVars, batchVars, extractVars>>

NextFind == FindContracts

SpecFind == InitFind /\ [][NextFind]_vars

IsHexDigit(ch) == IndexIn(LowerCh(ch), HEXDIGITS) > 0

\* "0x" followed by exactly 40 hexadecimal digits
WellFormedAddress(a) ==
    /\ Len(a) = 42
    /\ Prefix(a, 2) = "0x"
    /\ \A k \in 3..Len(a) : IsHexDigit(Ch(a, k))

InRegistry(p, n) == (p \o "_" \o n) \in DOMAIN known_contracts

\* C1: for a (protocol, network) whose key is in the known registry,
\* find_contracts returns the registry's list for that key, unchanged and in
\* stored order, whether or not the protocol name matches a category keyword.
C1_RegistryVerbatim ==
    (pc = "found" /\ InRegistry(protocol, network))
        => contracts = known_contracts[protocol \o "_" \o network]

\* A registry pair whose protocol name also matches a category keyword has
\* been resolved.
C1_Witness ==
    /\ pc = "found"
    /\ InRegistry(protocol, network)
    /\ get_protocol_category(protocol) # "other"
    /\ Len(contracts) > 0

\* C2: for a (protocol, network) absent from the registry, find_contracts
\* returns at least one candidate and every candidate's address is "0x"
\* followed by exactly 40 hexadecimal digits.
C2_AbsentWellFormed ==
    (pc = "found" /\ ~InRegistry(protocol, network))
        => /\ Len(contracts) >= 1
           /\ \A k \in 1..Len(contracts) : WellFormedAddress(contracts[k].address)

\* The keyword lists of the four categories, in the order the claim gives them
LENDING_WORDS == {"lending", "borrow", "lend"}
DEX_WORDS     == {"dex", "swap", "exchange", "trade"}
BRIDGE_WORDS  == {"bridge", "crosschain", "transfer"}
STAKING_WORDS == {"stake", "yield", "farm", "pool"}

Matches(words) == AnyKeyword(lower(protocol), words)

\* C21: for a (protocol, network) absent from the registry the name is
\* classified by keyword substring match, the categories being tried in the
\* order lending, dex, bridge, staking and the first match winning; the
\* matched category's template is the result, and the hash-based fallback tier
\* is the result only when no category matches.
C21_FirstCategoryWins ==
    (pc = "found" /\ ~InRegistry(protocol, network))
        => /\ Matches(LENDING_WORDS)
                => contracts = find_lending_contracts(protocol, network)
           /\ (~Matches(LENDING_WORDS) /\ Matches(DEX_WORDS))
                => contracts = find_dex_contracts(protocol, network)
           /\ (~Matches(LENDING_WORDS) /\ ~Matches(DEX_WORDS) /\ Matches(BRIDGE_WORDS))
                => contracts = find_bridge_contracts(protocol, network)
           /\ (~Matches(LENDING_WORDS) /\ ~Matches(DEX_WORDS) /\ ~Matches(BRIDGE_WORDS)
                    /\ Matches(STAKING_WORDS))
                => contracts = find_staking_contracts(protocol, network)
           /\ (contracts = generate_fallback_contracts(protocol, network, hashv))
                => ~(\/ Matches(LENDING_WORDS) \/ Matches(DEX_WORDS)
                     \/ Matches(BRIDGE_WORDS) \/ Matches(STAKING_WORDS))

\* An absent name that matches both a lending and a dex keyword has been
\* resolved to the lending template.
C21_Witness ==
    /\ pc = "found"
    /\ ~InRegistry(protocol, network)
    /\ Matches(LENDING_WORDS) /\ Matches(DEX_WORDS)
    /\ contracts = find_lending_contracts(protocol, network)

\* The two candidates the fallback tier gives a dex-like name: Main at the
\* hash value and Router at the hash value plus one, modulo 16**40
FallbackWithRouter(p, n, h) ==
    << [address |-> "0x" \o FormatHex(base_hash_of(h), 40),
        name |-> title(replace(p, "_", "")) \o "Main"],
       [address |-> "0x" \o FormatHex(ModPow16(IncDigits(base_hash_of(h)), 40), 40),
        name |-> title(replace(p, "_", "")) \o "Router"] >>

\* C22: in the fallback tier reached through find_contracts the result is the
\* single candidate "<Protocol>Main" at the address of the hash value, and for
\* an absent (protocol, network) whose protocol name matches one of the
\* dex-like keywords dex, swap, exchange, find_contracts returns the two
\* fallback candidates "<Protocol>Main" and "<Protocol>Router", the second at
\* the hash value plus one modulo 2^160.
C22_DexLikeFallbackHasRouter ==
    (pc = "found" /\ ~InRegistry(protocol, network))
        => /\ get_protocol_category(protocol) = "other"
                => /\ Len(contracts) >= 1
                   /\ contracts[1] = FallbackWithRouter(protocol, network, hashv)[1]
           /\ Matches({"dex", "swap", "exchange"})
                => contracts = FallbackWithRouter(protocol, network, hashv)
----------------------------------------------------------------------------
(* Python / JSON values: a list, a dict that is an ABI entry, and values of *)
(* other types, each tagged with its Python type.                           *)

JList(items) == [py |-> "list", items |-> items]
JDict(t, n, ins) == [py |-> "dict", type |-> t, name |-> n, inputs |-> ins]
JStr == [py |-> "str"]
JObject == [py |-> "dict", empty |-> TRUE]

IsNone(x) == "none" \in DOMAIN x

----------------------------------------------------------------------------
(* event_extractor.py: EventExtractor *)

RECURSIVE Join(_, _)
\* sep.join(parts)
Join(parts, sep) ==
    IF Len(parts) = 0 THEN ""
    ELSE IF Len(parts) = 1 THEN parts[1]
    ELSE parts[1] \o sep \o Join(Tail(parts), sep)

\* one input rendered with the type before the name
format_input_type_first(input_item) ==
    IF input_item.indexed
    THEN input_item.type \o " " \o input_item.name \o " indexed"
    ELSE input_item.type \o " " \o input_item.name

\* the "name type[ indexed]" rendering of one input
format_input(input_item) ==
    IF input_item.indexed
    THEN input_item.name \o " " \o input_item.type \o " indexed"
    ELSE input_item.name \o " " \o input_item.type

\* EventExtractor._format_event_signature
format_event_signature(event_abi) ==
    IF event_abi.name = "" THEN ""
    ELSE event_abi.name \o "("
            \o Join([k \in 1..Len(event_abi.inputs) |-> format_input(event_abi.inputs[k])], ", ")
            \o ")"

\* the loop of extract_events inserting each signature at the front
RECURSIVE ExtractFrom_reversed(_, _)
ExtractFrom_reversed(items, k) ==
    IF k > Len(items) THEN <<>>
    ELSE LET item == items[k]
             rest == ExtractFrom_reversed(items, k + 1)
         IN  IF item.type = "event" /\ format_event_signature(item) # ""
             THEN rest \o <<format_event_signature(item)>>
             ELSE rest

\* the loop of extract_events, lines 25-29, from entry k on
RECURSIVE ExtractFrom(_, _)
ExtractFrom(items, k) ==
    IF k > Len(items) THEN <<>>
    ELSE LET item == items[k]
             rest == ExtractFrom(items, k + 1)
         IN  IF item.type = "event" /\ format_event_signature(item) # ""
             THEN <<format_event_signature(item)>> \o rest
             ELSE rest

RECURSIVE ExtractAllFrom(_, _)
ExtractAllFrom(items, k) ==
    IF k > Len(items) THEN <<>>
    ELSE LET item == items[k]
             rest == ExtractAllFrom(items, k + 1)
         IN  IF format_event_signature(item) # ""
             THEN <<format_event_signature(item)>> \o rest
             ELSE rest

\* extract_events without the test on the entry's type
extract_events_all_entries(abi) ==
    IF abi.py # "list" \/ Len(abi.items) = 0 THEN [raised |-> FALSE, events |-> <<>>]
    ELSE IF \E k \in 1..Len(abi.items) : abi.items[k].py # "dict"
         THEN [raised |-> TRUE, events |-> <<>>]
         ELSE [raised |-> FALSE, events |-> ExtractAllFrom(abi.items, 1)]

\* EventExtractor.extract_events: the list of signatures, or raised when an
\* entry of the list is not a dict (item.get raises AttributeError, which
\* extract_events does not catch)
extract_events(abi) ==
    IF abi.py # "list" \/ Len(abi.items) = 0 THEN [raised |-> FALSE, events |-> <<>>]
    ELSE IF \E k \in 1..Len(abi.items) : abi.items[k].py # "dict"
         THEN [raised |-> TRUE, events |-> <<>>]
         ELSE [raised |-> FALSE, events |-> ExtractFrom(abi.items, 1)]

\* item.get(key, default) on an ABI entry or an input
Get(item, key, default) == IF key \in DOMAIN item THEN item[key] ELSE default

\* EventExtractor._process_event_inputs
process_event_inputs(inputs) ==
    [k \in 1..Len(inputs) |->
        [name |-> Get(inputs[k], "name", ""),
         type |-> Get(inputs[k], "type", ""),
         indexed |-> Get(inputs[k], "indexed", FALSE),
         components |-> Get(inputs[k], "components", <<>>)]]

\* the event_info dict of one entry, lines 87-92
event_info(item) ==
    [name |-> Get(item, "name", ""),
     signature |-> format_event_signature(item),
     inputs |-> process_event_inputs(Get(item, "inputs", <<>>)),
     anonymous |-> Get(item, "anonymous", FALSE)]

\* the loop of get_event_details, lines 85-93, from entry k on
RECURSIVE DetailsFrom(_, _)
DetailsFrom(items, k) ==
    IF k > Len(items) THEN <<>>
    ELSE LET item == items[k]
             rest == DetailsFrom(items, k + 1)
         IN  IF item.type = "event"
             THEN <<event_info(item)>> \o rest
             ELSE rest

\* EventExtractor.get_event_details: the list of event_info dicts.  The
\* argument is iterated without a test of its type: an empty dict gives an
\* empty loop, a str has characters without .get, and an entry of a list that
\* is not a dict raises AttributeError as in extract_events
get_event_details(abi) ==
    IF abi.py = "dict" THEN [raised |-> FALSE, events |-> <<>>]
    ELSE IF abi.py # "list" THEN [raised |-> TRUE, events |-> <<>>]
    ELSE IF \E k \in 1..Len(abi.items) : abi.items[k].py # "dict"
         THEN [raised |-> TRUE, events |-> <<>>]
         ELSE [raised |-> FALSE, events |-> DetailsFrom(abi.items, 1)]

----------------------------------------------------------------------------
(* abi_fetcher.py: ABIFetcher *)

\* keys of ABIFetcher.explorer_apis
explorer_apis ==
    { "ethereum", "polygon", "bsc", "arbitrum", "optimism", "avalanche",
      "fantom", "base", "zksync_era" }

sample_abis ==
    <<
      [key |-> "LendingPool",
       data |-> [verified |-> TRUE, abi |-> JList(<<
         JDict("event", "Deposit", <<
             [name |-> "reserve", type |-> "address", indexed |-> TRUE],
             [name |-> "user", type |-> "address", indexed |-> FALSE],
             [name |-> "onBehalfOf", type |-> "address", indexed |-> TRUE],
             [name |-> "amount", type |-> "uint256", indexed |-> FALSE],
             [name |-> "referral", type |-> "uint16", indexed |-> TRUE] >>),
         JDict("event", "Withdraw", <<
             [name |-> "reserve", type |-> "address", indexed |-> TRUE],
             [name |-> "user", type |-> "address", indexed |-> TRUE],
             [name |-> "to", type |-> "address", indexed |-> TRUE],
             [name |-> "amount", type |-> "uint256", indexed |-> FALSE] >>),
         JDict("event", "Borrow", <<
             [name |-> "reserve", type |-> "address", indexed |-> TRUE],
             [name |-> "user", type |-> "address", indexed |-> FALSE],
             [name |-> "onBehalfOf", type |-> "address", indexed |-> TRUE],
             [name |-> "amount", type |-> "uint256", indexed |-> FALSE],
             [name |-> "borrowRateMode", type |-> "uint256", indexed |-> FALSE],
             [name |-> "borrowRate", type |-> "uint256", indexed |-> FALSE],
             [name |-> "referral", type |-> "uint16", indexed |-> TRUE] >>) >>)]],
      [key |-> "UniswapV2Factory",
       data |-> [verified |-> TRUE, abi |-> JList(<<
         JDict("event", "PairCreated", <<
             [name |-> "token0", type |-> "address", indexed |-> TRUE],
             [name |-> "token1", type |-> "address", indexed |-> TRUE],
             [name |-> "pair", type |-> "address", indexed |-> FALSE],
             [name |-> "", type |-> "uint256", indexed |-> FALSE] >>) >>)]],
      [key |-> "UniswapV2Router",
       data |-> [verified |-> TRUE, abi |-> JList(<<
         JDict("event", "SwapETHForTokens", <<
             [name |-> "amountIn", type |-> "uint256", indexed |-> FALSE],
             [name |-> "amountOutMin", type |-> "uint256", indexed |-> FALSE],
             [name |-> "path", type |-> "address[]", indexed |-> FALSE],
             [name |-> "to", type |-> "address", indexed |-> FALSE],
             [name |-> "deadline", type |-> "uint256", indexed |-> FALSE] >>) >>)]],
      [key |-> "Comptroller",
       data |-> [verified |-> TRUE, abi |-> JList(<<
         JDict("event", "MarketEntered", <<
             [name |-> "cToken", type |-> "address", indexed |-> FALSE],
             [name |-> "account", type |-> "address", indexed |-> FALSE] >>),
         JDict("event", "MarketExited", <<
             [name |-> "cToken", type |-> "address", indexed |-> FALSE],
             [name |-> "account", type |-> "address", indexed |-> FALSE] >>) >>)]]
    >>

generic_abi ==
    [verified |-> TRUE, abi |-> JList(<<
      JDict("event", "Transfer", <<
          [name |-> "from", type |-> "address", indexed |-> TRUE],
          [name |-> "to", type |-> "address", indexed |-> TRUE],
          [name |-> "value", type |-> "uint256", indexed |-> FALSE] >>),
      JDict("event", "Approval", <<
          [name |-> "owner", type |-> "address", indexed |-> TRUE],
          [name |-> "spender", type |-> "address", indexed |-> TRUE],
          [name |-> "value", type |-> "uint256", indexed |-> FALSE] >>) >>)]
AAVE_ABI_JSON ==
    "[{\"type\":\"event\",\"name\":\"Deposit\",\"inputs\":[{\"name\":\"reserve\",\"type\":\"address\",\"indexed\":true},{\"name\":\"amount\",\"type\":\"uint256\",\"indexed\":false}]},{\"type\":\"function\",\"name\":\"deposit\",\"inputs\":[]},{\"type\":\"event\",\"name\":\"Withdraw\",\"inputs\":[{\"name\":\"user\",\"type\":\"address\",\"indexed\":true}]},{\"type\":\"event\",\"name\":\"Borrow\",\"inputs\":[]}]"

UNNAMED_EVENT_JSON ==
    "[{\"type\":\"event\",\"name\":\"\",\"inputs\":[]},{\"type\":\"event\",\"name\":\"Sync\",\"inputs\":[]}]"

STRINGS_JSON ==
    "[\"Deposit\"]"

MIXED_JSON ==
    "[{\"type\":\"event\",\"name\":\"Deposit\",\"inputs\":[]},\"Withdraw\"]"

EMPTY_LIST_JSON ==
    "[]"

OBJECT_JSON ==
    "{}"

\* json.loads on the texts the explorer is modelled to send: the value each
\* text denotes
JsonTable ==
    AAVE_ABI_JSON :> JList(<< JDict("event", "Deposit", << [name |-> "reserve", type |-> "address", indexed |-> TRUE], [name |-> "amount", type |-> "uint256", indexed |-> FALSE] >>), JDict("function", "deposit", <<  >>), JDict("event", "Withdraw", << [name |-> "user", type |-> "address", indexed |-> TRUE] >>), JDict("event", "Borrow", <<  >>) >>) @@
    UNNAMED_EVENT_JSON :> JList(<< JDict("event", "", <<  >>), JDict("event", "Sync", <<  >>) >>) @@
    STRINGS_JSON :> JList(<< JStr >>) @@
    MIXED_JSON :> JList(<< JDict("event", "Deposit", <<  >>), JStr >>) @@
    EMPTY_LIST_JSON :> JList(<<  >>) @@
    OBJECT_JSON :> JObject

RECURSIVE SampleFrom(_, _)
SampleFrom(addr_lower, k) ==
    IF k > Len(sample_abis) THEN generic_abi
    ELSE IF Contains(addr_lower, lower(sample_abis[k].key)) THEN sample_abis[k].data
    ELSE SampleFrom(addr_lower, k + 1)

\* _get_sample_abi without the generic interface: None when no key matches
get_sample_abi_samples_only(addr) ==
    IF \E k \in 1..Len(sample_abis) : Contains(lower(addr), lower(sample_abis[k].key))
    THEN CHOOSE data \in { SampleFrom(addr_lower, 1) : addr_lower \in {lower(addr)} } : TRUE
    ELSE NoneData

\* ABIFetcher._get_sample_abi (contract_address.lower() is computed once: the
\* set binds its value)
get_sample_abi(addr) ==
    CHOOSE data \in { SampleFrom(addr_lower, 1) : addr_lower \in {lower(addr)} } : TRUE


json_loads(text) ==
    IF text \in DOMAIN JsonTable
    THEN [ok |-> TRUE, value |-> JsonTable[text]]
    ELSE [ok |-> FALSE, value |-> JStr]

\* What one explorer request can do: raise (timeout, connection error, a body
\* that is not JSON), answer with a non-200 status, or answer 200 with
\* {status, result}.
Raised == [kind |-> "exception", status |-> 0, data_status |-> "", result |-> ""]
Http(st, ds, res) == [kind |-> "http", status |-> st, data_status |-> ds, result |-> res]

ExplorerResponses ==
    { Raised,
      Http(500, "", ""),
      Http(200, "1", AAVE_ABI_JSON),
      Http(200, "1", UNNAMED_EVENT_JSON),
      Http(200, "1", STRINGS_JSON),
      Http(200, "1", MIXED_JSON),
      Http(200, "1", EMPTY_LIST_JSON),
      Http(200, "1", OBJECT_JSON),
      Http(200, "1", "<html>Bad Gateway</html>"),
      Http(200, "1", ""),
      Http(200, "0", "Contract source code not verified"),
      Http(200, "0", AAVE_ABI_JSON) }

\* ABIFetcher._fetch_from_explorer, given what the request did
fetch_from_explorer(resp) ==
    IF resp.kind = "exception" THEN NoneData
    ELSE IF resp.status # 200 THEN NoneData
    ELSE IF resp.data_status = "1" /\ resp.result # ""
         THEN LET parsed == json_loads(resp.result)
              IN  IF parsed.ok THEN [verified |-> TRUE, abi |-> parsed.value]
                  ELSE NoneData
         ELSE [verified |-> FALSE, abi |-> JList(<<>>)]

\* fetch_abi without the fallback: the explorer's result as it is
fetch_abi_result_no_fallback(explorer_data, addr) == explorer_data

\* fetch_abi falling back whenever the explorer did not give a verified result
fetch_abi_result_unverified_falls_back(explorer_data, addr) ==
    IF ~IsNone(explorer_data) /\ explorer_data.verified THEN explorer_data
    ELSE get_sample_abi(addr)

\* ABIFetcher.fetch_abi, lines 142-146: the explorer's result when there is
\* one, the sample/generic interface otherwise
fetch_abi_result(explorer_data, addr) ==
    IF ~IsNone(explorer_data) THEN explorer_data ELSE get_sample_abi(addr)

\* _fetch_from_explorer repeating a request that gave no result, twice at most
ExplorerRequest_retries(Rs) ==
    /\ pc = "fetch_abi"
    /\ network \in explorer_apis
    /\ \E resp \in Rs :
        /\ response' = resp
        /\ abi_data' = fetch_from_explorer(resp)
        /\ pc' = IF IsNone(fetch_from_explorer(resp)) /\ requests < 2
                 THEN "fetch_abi" ELSE "explorer_returned"
    /\ requests' = requests + 1
    /\ UNCHANGED <<contract_address, contract_name, findVars, orchVars, batchVars, extractVars>>

\* _fetch_from_explorer with an endpoint for the network: one request, whose
\* outcome is one of Rs
ExplorerRequest(Rs) ==
    /\ pc = "fetch_abi"
    /\ network \in explorer_apis
    /\ \E resp \in Rs :
        /\ response' = resp
        /\ abi_data' = fetch_from_explorer(resp)
    /\ requests' = requests + 1
    /\ pc' = "explorer_returned"
    /\ UNCHANGED <<contract_address, contract_name, findVars, orchVars, batchVars, extractVars>>

\* _fetch_from_explorer without an endpoint: return None, no request
NoExplorerApi ==
    /\ pc = "fetch_abi"
    /\ network \notin explorer_apis
    /\ abi_data' = NoneData
    /\ pc' = "explorer_returned"
    /\ UNCHANGED <<contract_address, contract_name, response, requests,
                   findVars, orchVars, batchVars, extractVars>>

\* fetch_abi returns
FetchAbiReturn ==
    /\ pc = "explorer_returned"
    /\ abi_data' = fetch_abi_result(abi_data, contract_address)
    /\ pc' = "fetched"
    /\ UNCHANGED <<contract_address, contract_name, response, requests,
                   findVars, orchVars, batchVars, extractVars>>

FetchFromExplorer == ExplorerRequest(ExplorerResponses)

----------------------------------------------------------------------------
(* fetch_abi as a function of its inputs and of what the explorer does *)

\* Addresses given to fetch_abi: registry addresses, a category-template
\* address, a hash address, and strings that contain a sample key.
FetchAddresses ==
    { "0x7d2768dE32b0b80b7a3454c06BdAc94A69DDc7A9",
      "0x5C69bEe701ef814a2B6a3EDD4B1652CB9cc5aA6f",
      "0xsushisbsc000000000000000000000000000000",
      "0x000000000000000000000000000000000000001f",
      "LendingPool",
      "0xuniswapv2router02" }

\* Networks given to fetch_abi: with an explorer endpoint and without one
FetchNetworks == { "ethereum", "bsc", "zksync_era", "solana", "cosmos" }

InitFetch ==
    /\ pc = "fetch_abi"
    /\ contract_address \in FetchAddresses
    /\ contract_name = ""
    /\ network \in FetchNetworks
    /\ response = NoResponse
    /\ abi_data = NoneData
    /\ requests = 0
    /\ protocol = "" /\ category = "" /\ hashv = NoHash /\ contracts = <<>>
    /\ IdleOrch /\ IdleBatch /\ IdleExtract

NextFetch == FetchFromExplorer \/ NoExplorerApi \/ FetchAbiReturn

SpecFetch == InitFetch /\ [][NextFetch]_vars

\* the request failed at transport level, or answered status "1" with a
\* result that is not JSON
TransportFailure(resp) ==
    \/ resp.kind = "exception"
    \/ resp.kind = "http" /\ resp.status # 200
    \/ /\ resp.kind = "http" /\ resp.status = 200
       /\ resp.data_status = "1" /\ resp.result # ""
       /\ resp.result \notin DOMAIN JsonTable

\* C3: fetch_abi never returns none, and when the network has no explorer
\* endpoint, the transport fails, or a status "1" result does not parse as
\* JSON, it returns the sample/generic fallback interface.
C3_FailureFallsBack ==
    pc = "fetched" =>
        /\ ~IsNone(abi_data)
        /\ (network \notin explorer_apis \/ TransportFailure(response))
              => abi_data = get_sample_abi(contract_address)

\* fetch_abi has returned the generic interface after an unparsable result
C3_Witness ==
    /\ pc = "fetched"
    /\ response.kind = "http" /\ response.status = 200
    /\ response.data_status = "1" /\ response.result \notin DOMAIN JsonTable
    /\ response.result # ""
    /\ abi_data = generic_abi

\* fetch_abi has returned a sample interface for a network without endpoint
C3_WitnessNoEndpoint ==
    /\ pc = "fetched"
    /\ network \notin explorer_apis
    /\ requests = 0
    /\ abi_data = sample_abis[1].data


\* C19: one call of fetch_abi issues at most one explorer request, whatever
\* its outcome, and none when the network has no endpoint.
C19_SingleRequest ==
    /\ requests <= 1
    /\ pc \in { "explorer_returned", "fetched" } =>
          requests = (IF network \in explorer_apis THEN 1 ELSE 0)
    /\ (pc \in { "explorer_returned", "fetched" } /\ network \notin explorer_apis) =>
          response = NoResponse

\* fetch_abi has returned after one request that got a non-200 answer
C19_Witness ==
    /\ pc = "fetched"
    /\ response = Http(500, "", "")
    /\ requests = 1
    /\ abi_data = generic_abi

----------------------------------------------------------------------------
(* main.py: DefiContractCollector *)

\* keys of config.NETWORKS
NETWORKS ==
    { "ethereum", "polygon", "arbitrum", "optimism", "bsc", "avalanche",
      "fantom", "base" }

\* if i % 500 == 0: save intermediate results
SNAPSHOT_INTERVAL == 500

\* Longest worklist explored
MaxItems == 2

\* Rows of the worklist: a registry protocol, a protocol resolved by the hash
\* fallback, and one on a network that is not supported (three rows of the
\* sample worklist of utils.py).
WorkItems ==
    { [protocol |-> "aave", category |-> "lending", network |-> "ethereum"],
      [protocol |-> "multichain", category |-> "bridge", network |-> "ethereum"],
      [protocol |-> "axelar", category |-> "bridge", network |-> "cosmos"] }

Worklists == UNION { [1..n -> WorkItems] : n \in 0..MaxItems }

\* What the explorer does in a run of the collector
OrchResponses ==
    { Raised,
      Http(200, "1", AAVE_ABI_JSON),
      Http(200, "1", MIXED_JSON),
      Http(200, "0", "Contract source code not verified"),
      Http(200, "1", ""),
      Http(500, "", "") }

OrchHashValues == { [neg |-> TRUE, mag |-> "2"] }

\* the result dict of process_protocol for the current candidate
Record(verified, events) ==
    [ protocol |-> protocol, category |-> category, network |-> network,
      contract_address |-> contract_address, contract_name |-> contract_name,
      verified |-> verified, events |-> events ]

\* [x for x in recs if x[field] == value], counted
CountWhere(recs, field, value) ==
    Cardinality({ k \in 1..Len(recs) : recs[k][field] = value })

RECURSIVE SumEvents(_, _)
SumEvents(recs, k) ==
    IF k > Len(recs) THEN 0 ELSE Len(recs[k].events) + SumEvents(recs, k + 1)

\* generate_summary counting the records that have events instead of the events
generate_summary_counts_records(recs) ==
    [ total_contracts |-> Len(recs),
      verified_contracts |-> CountWhere(recs, "verified", "yes"),
      unverified_contracts |-> CountWhere(recs, "verified", "no"),
      total_events |-> Cardinality({ k \in 1..Len(recs) : Len(recs[k].events) > 0 }),
      protocols_processed |-> Cardinality({ recs[k].protocol : k \in 1..Len(recs) }),
      networks_covered |-> { recs[k].network : k \in 1..Len(recs) },
      categories_covered |-> { recs[k].category : k \in 1..Len(recs) } ]

\* DefiContractCollector.generate_summary; list(set(...)) has no defined
\* order and is kept as the set
generate_summary(recs) ==
    [ total_contracts |-> Len(recs),
      verified_contracts |-> CountWhere(recs, "verified", "yes"),
      unverified_contracts |-> CountWhere(recs, "verified", "no"),
      total_events |-> SumEvents(recs, 1),
      protocols_processed |-> Cardinality({ recs[k].protocol : k \in 1..Len(recs) }),
      networks_covered |-> { recs[k].network : k \in 1..Len(recs) },
      categories_covered |-> { recs[k].category : k \in 1..Len(recs) } ]

InitOrch ==
    /\ pc = "loop"
    /\ protocols \in Worklists
    /\ i = 1
    /\ c = 0
    /\ protocol_results = <<>>
    /\ all_results = <<>>
    /\ files = <<>>
    /\ hashv \in OrchHashValues
    /\ protocol = "" /\ network = "" /\ category = "" /\ contracts = <<>>
    /\ IdleFetch /\ IdleBatch /\ IdleExtract

\* the loop without the test on the network: the row is processed
SkipUnsupported_processes ==
    /\ pc = "loop"
    /\ i <= Len(protocols)
    /\ protocols[i].network \notin NETWORKS
    /\ protocol' = protocols[i].protocol
    /\ network' = protocols[i].network
    /\ category' = protocols[i].category
    /\ pc' = "find"
    /\ UNCHANGED <<hashv, contracts, fetchVars, orchVars, batchVars, extractVars>>

\* collect_all_protocols, lines 120-125: a row whose network is not supported
SkipUnsupported ==
    /\ pc = "loop"
    /\ i <= Len(protocols)
    /\ protocols[i].network \notin NETWORKS
    /\ i' = i + 1
    /\ UNCHANGED <<pc, findVars, fetchVars, protocols, c, protocol_results,
                   all_results, files, batchVars, extractVars>>

\* collect_all_protocols, line 128, and process_protocol, lines 35-41
StartProtocol ==
    /\ pc = "loop"
    /\ i <= Len(protocols)
    /\ protocols[i].network \in NETWORKS
    /\ protocol' = protocols[i].protocol
    /\ network' = protocols[i].network
    /\ category' = protocols[i].category
    /\ pc' = "find"
    /\ UNCHANGED <<hashv, contracts, fetchVars, orchVars, batchVars, extractVars>>

\* find_contracts raises: control goes to the handler of line 106
FindContractsRaises ==
    /\ pc = "find"
    /\ pc' = "protocol_except"
    /\ UNCHANGED <<findVars, fetchVars, orchVars, batchVars, extractVars>>

\* the loop assigning the item's records instead of extending the list
ReturnToLoop_replaces(recs) ==
    /\ all_results' = recs
    /\ files' = IF i % SNAPSHOT_INTERVAL = 0
                THEN Append(files, [path |-> "data/intermediate_results",
                                    data |-> recs])
                ELSE files
    /\ i' = i + 1
    /\ pc' = "loop"
    /\ protocol' = "" /\ network' = "" /\ category' = "" /\ contracts' = <<>>
    /\ c' = 0 /\ protocol_results' = <<>>
    /\ contract_address' = "" /\ contract_name' = "" /\ response' = NoResponse
    /\ abi_data' = NoneData /\ requests' = 0
    /\ UNCHANGED <<hashv, protocols, batchVars, extractVars>>

\* process_protocol returns recs: collect_all_protocols, lines 129-134,
\* extends all_results, writes the snapshot when i is a multiple of 500 and
\* goes on to the next row
ReturnToLoop(recs) ==
    /\ all_results' = all_results \o recs
    /\ files' = IF i % SNAPSHOT_INTERVAL = 0
                THEN Append(files, [path |-> "data/intermediate_results",
                                    data |-> all_results \o recs])
                ELSE files
    /\ i' = i + 1
    /\ pc' = "loop"
    /\ protocol' = "" /\ network' = "" /\ category' = "" /\ contracts' = <<>>
    /\ c' = 0 /\ protocol_results' = <<>>
    /\ contract_address' = "" /\ contract_name' = "" /\ response' = NoResponse
    /\ abi_data' = NoneData /\ requests' = 0
    /\ UNCHANGED <<hashv, protocols, batchVars, extractVars>>

\* the head of "for contract in contracts" for candidate k: the next
\* candidate's lookup, or "return protocol_results" after the last one
ContractLoop(k) ==
    IF k > Len(contracts)
    THEN ReturnToLoop(protocol_results)
    ELSE /\ c' = k
         /\ contract_address' = contracts[k].address
         /\ contract_name' = contracts[k].name
         /\ response' = NoResponse
         /\ abi_data' = NoneData
         /\ requests' = 0
         /\ pc' = "fetch_abi"
         /\ UNCHANGED <<findVars, protocols, i, protocol_results, all_results,
                        files, batchVars, extractVars>>

\* process_protocol, lines 45-51: "if not contracts: return []", then the
\* first candidate
BeginContracts ==
    /\ pc = "found"
    /\ ContractLoop(1)

\* the explorer request of fetch_abi in a run of the collector
OrchFetchFromExplorer == ExplorerRequest(OrchResponses)

\* fetch_abi raises: control goes to the handler of line 88
FetchAbiRaises ==
    /\ pc = "fetch_abi"
    /\ pc' = "contract_except"
    /\ UNCHANGED <<findVars, fetchVars, orchVars, batchVars, extractVars>>

\* the record of the candidate without the test of the result's verified flag
ProcessAbi_ignores_verified ==
    /\ pc = "fetched"
    /\ IF ~IsNone(abi_data)
       THEN LET extracted == extract_events(abi_data.abi)
            IN  IF extracted.raised
                THEN /\ pc' = "contract_except"
                     /\ UNCHANGED protocol_results
                ELSE /\ protocol_results' =
                            Append(protocol_results, Record("yes", extracted.events))
                     /\ pc' = "sleep"
       ELSE /\ protocol_results' = Append(protocol_results, Record("no", <<>>))
            /\ pc' = "sleep"
    /\ UNCHANGED <<findVars, fetchVars, protocols, i, c, all_results, files,
                   batchVars, extractVars>>

\* process_protocol, lines 61-86: the record of the candidate; extract_events
\* raising sends control to the handler of line 88
ProcessAbi ==
    /\ pc = "fetched"
    /\ IF ~IsNone(abi_data) /\ abi_data.verified
       THEN LET extracted == extract_events(abi_data.abi)
            IN  IF extracted.raised
                THEN /\ pc' = "contract_except"
                     /\ UNCHANGED protocol_results
                ELSE /\ protocol_results' =
                            Append(protocol_results, Record("yes", extracted.events))
                     /\ pc' = "sleep"
       ELSE /\ protocol_results' = Append(protocol_results, Record("no", <<>>))
            /\ pc' = "sleep"
    /\ UNCHANGED <<findVars, fetchVars, protocols, i, c, all_results, files,
                   batchVars, extractVars>>

\* the contract-level handler without its append
ContractExcept_drops_record ==
    /\ pc = "contract_except"
    /\ pc' = "sleep"
    /\ UNCHANGED <<findVars, fetchVars, orchVars, batchVars, extractVars>>

\* process_protocol, lines 88-99: the contract-level handler
ContractExcept ==
    /\ pc = "contract_except"
    /\ protocol_results' = Append(protocol_results, Record("no", <<>>))
    /\ pc' = "sleep"
    /\ UNCHANGED <<findVars, fetchVars, protocols, i, c, all_results, files,
                   batchVars, extractVars>>

\* await asyncio.sleep(0.5) completes; the loop goes to the next candidate
SleepDone ==
    /\ pc = "sleep"
    /\ ContractLoop(c + 1)

\* await asyncio.sleep(0.5) raises: control goes to the handler of line 106
SleepRaises ==
    /\ pc = "sleep"
    /\ pc' = "protocol_except"
    /\ UNCHANGED <<findVars, fetchVars, orchVars, batchVars, extractVars>>

\* the protocol-level handler re-raising: the run stops
ProtocolExcept_aborts ==
    /\ pc = "protocol_except"
    /\ pc' = "aborted"
    /\ UNCHANGED <<findVars, fetchVars, orchVars, batchVars, extractVars>>

\* the protocol-level handler returning the records built so far
ProtocolExcept_returns_partial ==
    /\ pc = "protocol_except"
    /\ ReturnToLoop(protocol_results)

\* process_protocol, lines 106-108: the protocol-level handler returns []
ProtocolExcept ==
    /\ pc = "protocol_except"
    /\ ReturnToLoop(<<>>)

\* collect_all_protocols, lines 136-141: the final results and the summary
SaveFinal ==
    /\ pc = "loop"
    /\ i > Len(protocols)
    /\ files' = files \o
          << [path |-> "data/defi_protocols_contracts_events.json", data |-> all_results],
             [path |-> "data/collection_summary.json",
              data |-> generate_summary(all_results)] >>
    /\ pc' = "done"
    /\ UNCHANGED <<findVars, fetchVars, protocols, i, c, protocol_results,
                   all_results, batchVars, extractVars>>

Next ==
    \/ SkipUnsupported
    \/ StartProtocol
    \/ FindContractsRaises
    \/ FindContracts
    \/ BeginContracts
    \/ FetchAbiRaises
    \/ OrchFetchFromExplorer
    \/ FetchAbiReturn
    \/ ProcessAbi
    \/ ContractExcept
    \/ SleepDone
    \/ SleepRaises
    \/ ProtocolExcept
    \/ SaveFinal

Spec == InitOrch /\ [][Next]_vars

\* Rows of the worklists of the runs followed to their end: a protocol with
\* two template candidates, one with a single generated candidate, and one on
\* a network that is not supported (rows of the sample worklist of utils.py,
\* sushiswap on the network of row 7).
LiveWorkItems ==
    { [protocol |-> "sushiswap", category |-> "dexs", network |-> "bsc"],
      [protocol |-> "multichain", category |-> "bridge", network |-> "ethereum"],
      [protocol |-> "axelar", category |-> "bridge", network |-> "cosmos"] }

LiveWorklists == UNION { [1..n -> LiveWorkItems] : n \in 0..MaxItems }

InitLive ==
    /\ pc = "loop"
    /\ protocols \in LiveWorklists
    /\ i = 1
    /\ c = 0
    /\ protocol_results = <<>>
    /\ all_results = <<>>
    /\ files = <<>>
    /\ hashv \in OrchHashValues
    /\ protocol = "" /\ network = "" /\ category = "" /\ contracts = <<>>
    /\ IdleFetch /\ IdleBatch /\ IdleExtract

\* asyncio.run drives the coroutine until it returns: a step that can be
\* taken is taken
SpecLive == InitLive /\ [][Next]_vars /\ WF_vars(Next)



----------------------------------------------------------------------------
(* Long runs of the collector: the intermediate snapshot *)

\* Length of the worklists of the long runs
MaxRows == 501

\* A worklist of MaxRows rows of a supported network whose row u, if any, is
\* of a network that is not supported
SnapshotWorklist(u) ==
    [ k \in 1..MaxRows |->
        IF k = u
        THEN [protocol |-> "axelar", category |-> "bridge", network |-> "cosmos"]
        ELSE [protocol |-> "multichain", category |-> "bridge", network |-> "ethereum"] ]

\* the row that is skipped: none, the first, the one whose index is the
\* snapshot interval
SkippedRows == { 0, 1, SNAPSHOT_INTERVAL }

InitSnapshot ==
    /\ pc = "loop"
    /\ protocols \in { SnapshotWorklist(u) : u \in SkippedRows }
    /\ i = 1
    /\ c = 0
    /\ protocol_results = <<>>
    /\ all_results = <<>>
    /\ files = <<>>
    /\ hashv \in OrchHashValues
    /\ protocol = "" /\ network = "" /\ category = "" /\ contracts = <<>>
    /\ IdleFetch /\ IdleBatch /\ IdleExtract

\* the runs in which the resolver fails for every row: each supported row is
\* processed and gives no record
NextSnapshot ==
    \/ SkipUnsupported
    \/ StartProtocol
    \/ FindContractsRaises
    \/ ProtocolExcept
    \/ SaveFinal

SpecSnapshot == InitSnapshot /\ [][NextSnapshot]_vars
----------------------------------------------------------------------------
(* Properties of a run of the collector *)

\* the record appended last
LastRecord == protocol_results[Len(protocol_results)]

\* HTTP 200 with a body that does not carry a verified interface
NotVerifiedOutcome(resp) ==
    /\ resp.kind = "http" /\ resp.status = 200
    /\ (resp.data_status # "1" \/ resp.result = "")

\* HTTP 200, status "1" and a result that parses as JSON
VerifiedPayload(resp) ==
    /\ resp.kind = "http" /\ resp.status = 200
    /\ resp.data_status = "1" /\ resp.result \in DOMAIN JsonTable

\* the number of entries of a parsed payload that are events with a name
NamedEventEntries(value) ==
    IF value.py # "list" THEN 0
    ELSE Cardinality({ k \in 1..Len(value.items) :
                          /\ value.items[k].py = "dict"
                          /\ value.items[k].type = "event"
                          /\ value.items[k].name # "" })

\* every entry of a parsed payload is an object
EntriesAreObjects(value) ==
    value.py = "list" => \A k \in 1..Len(value.items) : value.items[k].py = "dict"

NoSampleKeyIn(addr) ==
    \A k \in 1..Len(sample_abis) : ~Contains(lower(addr), lower(sample_abis[k].key))

GenericSignatures ==
    << "Transfer(from address indexed, to address indexed, value uint256)",
       "Approval(owner address indexed, spender address indexed, value uint256)" >>

\* C4: when the explorer answers HTTP 200 and the answer is "not verified"
\* (status is not "1", or the result is empty), fetch_abi returns
\* {verified: false, abi: []} after that one request, not the fallback, and
\* the record of the candidate has verified "no" and no events.
C4_NotVerifiedTerminal ==
    /\ (pc = "fetched" /\ NotVerifiedOutcome(response)) =>
          /\ abi_data = [verified |-> FALSE, abi |-> JList(<<>>)]
          /\ requests = 1
    /\ (pc = "sleep" /\ NotVerifiedOutcome(response)) =>
          /\ Len(protocol_results) = c
          /\ LastRecord.contract_address = contract_address
          /\ LastRecord.verified = "no"
          /\ LastRecord.events = <<>>
    /\ pc = "contract_except" => ~NotVerifiedOutcome(response)

\* the record of a candidate the explorer reported as not verified
C4_Witness ==
    /\ pc = "sleep"
    /\ response = Http(200, "0", "Contract source code not verified")
    /\ LastRecord.verified = "no"
    /\ LastRecord.events = <<>>

C8_TimeoutStillRecorded ==
    /\ (pc = "sleep" /\ TransportFailure(response)) =>
          /\ Len(protocol_results) = c
          /\ LastRecord.contract_address = contract_address
          /\ LastRecord.verified = "yes"
          /\ LastRecord.events # <<>>
          /\ NoSampleKeyIn(contract_address) => LastRecord.events = GenericSignatures
    /\ pc = "contract_except" => ~TransportFailure(response)

\* the record of a candidate whose request raised
C8_Witness ==
    /\ pc = "sleep"
    /\ response = Raised
    /\ LastRecord.verified = "yes"
    /\ LastRecord.events = GenericSignatures

\* C9: an exception while handling one candidate is caught at contract level:
\* the handler appends exactly one record for that candidate, with verified
\* "no" and no events; the loop then goes on to the next candidate; the
\* records of the other candidates are left as they are, one per candidate.
C9_ContractExceptionRecorded ==
    /\ [][pc = "contract_except" =>
            /\ protocol_results' =
                  Append(protocol_results,
                         [ protocol |-> protocol, category |-> category,
                           network |-> network,
                           contract_address |-> contract_address,
                           contract_name |-> contract_name,
                           verified |-> "no", events |-> <<>> ])
            /\ pc' = "sleep"]_vars
    /\ [][(pc = "sleep" /\ pc' # "protocol_except" /\ c < Len(contracts)) =>
            /\ pc' = "fetch_abi"
            /\ c' = c + 1
            /\ contract_address' = contracts[c + 1].address
            /\ protocol_results' = protocol_results]_vars
    /\ [][pc' # "loop" =>
            /\ Len(protocol_results') >= Len(protocol_results)
            /\ SubSeq(protocol_results', 1, Len(protocol_results)) = protocol_results]_vars
    /\ [](pc = "sleep" =>
            /\ Len(protocol_results) = c
            /\ \A k \in 1..c : protocol_results[k].contract_address = contracts[k].address)

\* event extraction raised for the second candidate: its record is "no" with
\* no events and the first candidate's record is still there
C9_Witness ==
    /\ pc = "sleep"
    /\ c = 2
    /\ response = Http(200, "1", MIXED_JSON)
    /\ LastRecord.verified = "no"
    /\ LastRecord.events = <<>>
    /\ protocol_results[1].verified = "yes"
    /\ protocol_results[1].events # <<>>

\* C10: when an exception reaches the protocol-level handler, the work item
\* adds no record to the accumulated results, not even the records built for
\* its earlier candidates, the accumulated records stay as they are, and the
\* loop goes on to the next work item.
C10_ProtocolExceptionYieldsNothing ==
    [][pc = "protocol_except" =>
          /\ all_results' = all_results
          /\ protocols' = protocols
          /\ i' = i + 1
          /\ pc' = "loop"]_vars

\* the pacing wait raised after a candidate's record was built, in a work item
\* that follows one that produced records
C10_Witness ==
    /\ pc = "protocol_except"
    /\ protocol_results # <<>>
    /\ all_results # <<>>

\* the rows of the worklist before row k whose network is supported
SupportedBefore(k) ==
    { j \in 1..(k - 1) : protocols[j].network \in NETWORKS }

FINAL_PATH == "data/defi_protocols_contracts_events.json"
SUMMARY_PATH == "data/collection_summary.json"

FilesAt(path) == { k \in 1..Len(files) : files[k].path = path }

\* C11: a work item whose network is not supported is skipped: the loop goes
\* to the next row with no resolution, no retrieval and no pacing wait, the
\* accumulated records and the files stay as they are, and every record in
\* the results is of a supported network.
C11_UnsupportedSkipped ==
    /\ [][(/\ pc = "loop" /\ i <= Len(protocols)
           /\ protocols[i].network \notin NETWORKS) =>
            /\ pc' = "loop"
            /\ i' = i + 1
            /\ all_results' = all_results
            /\ files' = files
            /\ contracts' = contracts
            /\ requests' = requests]_vars
    /\ [](pc \in { "find", "found", "fetch_abi", "explorer_returned", "fetched",
                   "contract_except", "sleep", "protocol_except" } =>
            /\ protocols[i].network \in NETWORKS
            /\ network = protocols[i].network)
    /\ [](\A k \in 1..Len(all_results) : all_results[k].network \in NETWORKS)

\* a run that skipped its first row and collected records from its second
C11_Witness ==
    /\ pc = "done"
    /\ Len(protocols) = 2
    /\ protocols[1].network \notin NETWORKS
    /\ all_results # <<>>

\* C12: for every worklist and every combination of contract-level and
\* protocol-level failures the run reaches the end of the worklist, and the
\* final result array and the summary are written exactly once, after the
\* last work item.
C12_RunCompletes ==
    /\ <>(pc = "done")
    /\ [](pc = "done" =>
            /\ i = Len(protocols) + 1
            /\ Len(files) >= 2
            /\ files[Len(files) - 1] = [path |-> FINAL_PATH, data |-> all_results]
            /\ files[Len(files)].path = SUMMARY_PATH
            /\ Cardinality(FilesAt(FINAL_PATH)) = 1
            /\ Cardinality(FilesAt(SUMMARY_PATH)) = 1)
    /\ [](pc # "done" => FilesAt(FINAL_PATH) = {} /\ FilesAt(SUMMARY_PATH) = {})

\* a finished run in which a protocol-level exception occurred (its row gave
\* no record) and a later row gave records
C12_Witness ==
    /\ pc = "done"
    /\ Len(protocols) = 2
    /\ protocols[1].network \in NETWORKS
    /\ protocols[2].network \in NETWORKS
    /\ \A k \in 1..Len(all_results) : all_results[k].protocol = protocols[2].protocol
    /\ protocols[1].protocol # protocols[2].protocol
    /\ all_results # <<>>
    /\ Len(files) = 2

----------------------------------------------------------------------------
(* abi_fetcher.py: ABIFetcher.batch_fetch_abis *)

\* semaphore = asyncio.Semaphore(5)
SEMAPHORE_LIMIT == 5

\* Largest number of candidates given to one batch
MaxBatch == 6

\* n candidates with distinct addresses
BatchContracts(n) ==
    [k \in 1..n |-> [address |-> "0x" \o Repeat("0", 39) \o HexCh(k),
                     name |-> "Candidate"]]

\* What the explorer does for a lookup of the batch
BatchResponses ==
    { Raised, Http(200, "0", "Contract source code not verified") }

\* a fetch_single task: before "async with semaphore", inside it, returned or
\* raised; what it gave to gather
NewTask(contract) ==
    [state |-> "pending", exc |-> FALSE, address |-> contract.address,
     abi_data |-> NoneData]

InFlight == { k \in 1..Len(tasks) : tasks[k].state = "running" }

InitBatch ==
    /\ pc = "gather"
    /\ \E n \in 0..MaxBatch : contracts = BatchContracts(n)
    /\ network = "ethereum"
    /\ tasks = [k \in 1..Len(contracts) |-> NewTask(contracts[k])]
    /\ semaphore = SEMAPHORE_LIMIT
    /\ results = <<>>
    /\ protocol = "" /\ category = "" /\ hashv = NoHash
    /\ IdleFetch /\ IdleOrch /\ IdleExtract

\* "async with semaphore" is entered without waiting for a permit
AcquireUnbounded(k) ==
    /\ pc = "gather"
    /\ tasks[k].state = "pending"
    /\ \A j \in 1..(k - 1) : tasks[j].state # "pending"
    /\ semaphore' = semaphore - 1
    /\ tasks' = [tasks EXCEPT ![k].state = "running"]
    /\ UNCHANGED <<pc, results, findVars, fetchVars, orchVars, extractVars>>

\* fetch_single, line 241: "async with semaphore" is entered when a permit
\* is free.  gather starts the tasks in list order and asyncio.Semaphore
\* wakes its waiters first come, first served, so the tasks enter in order.
Acquire(k) ==
    /\ pc = "gather"
    /\ tasks[k].state = "pending"
    /\ \A j \in 1..(k - 1) : tasks[j].state # "pending"
    /\ semaphore > 0
    /\ semaphore' = semaphore - 1
    /\ tasks' = [tasks EXCEPT ![k].state = "running"]
    /\ UNCHANGED <<pc, results, findVars, fetchVars, orchVars, extractVars>>

\* fetch_single, lines 242-243: fetch_abi returns, the permit is released
FetchSingleReturns(k) ==
    /\ pc = "gather"
    /\ tasks[k].state = "running"
    /\ \E resp \in BatchResponses :
          tasks' = [tasks EXCEPT
                       ![k].state = "done",
                       ![k].abi_data =
                           fetch_abi_result(fetch_from_explorer(resp), tasks[k].address)]
    /\ semaphore' = semaphore + 1
    /\ UNCHANGED <<pc, results, findVars, fetchVars, orchVars, extractVars>>

\* fetch_single raises inside "async with semaphore": the permit is released
\* and gather(return_exceptions=True) keeps the exception as the task's
\* response
FetchSingleRaises(k) ==
    /\ pc = "gather"
    /\ tasks[k].state = "running"
    /\ tasks' = [tasks EXCEPT ![k].state = "done", ![k].exc = TRUE]
    /\ semaphore' = semaphore + 1
    /\ UNCHANGED <<pc, results, findVars, fetchVars, orchVars, extractVars>>

\* results[address] = abi_data
Put(mapping, key, value) ==
    [x \in (DOMAIN mapping) \cup {key} |-> IF x = key THEN value ELSE mapping[x]]

RECURSIVE ProcessResponses(_, _, _)
\* batch_fetch_abis, lines 250-257
ProcessResponses(ts, k, acc) ==
    IF k > Len(ts) THEN acc
    ELSE IF ts[k].exc THEN ProcessResponses(ts, k + 1, acc)
    ELSE IF ~IsNone(ts[k].abi_data)
         THEN ProcessResponses(ts, k + 1, Put(acc, ts[k].address, ts[k].abi_data))
         ELSE ProcessResponses(ts, k + 1, acc)

\* gather without return_exceptions: the first exception leaves the batch
\* and no mapping is built
GatherFirstException ==
    /\ pc = "gather"
    /\ \A k \in 1..Len(tasks) : tasks[k].state = "done"
    /\ results' = IF \E k \in 1..Len(tasks) : tasks[k].exc
                  THEN <<>>
                  ELSE ProcessResponses(tasks, 1, <<>>)
    /\ pc' = "returned"
    /\ UNCHANGED <<tasks, semaphore, findVars, fetchVars, orchVars, extractVars>>

\* batch_fetch_abis, lines 247-259: every task has ended; the mapping is
\* built and returned
Gather ==
    /\ pc = "gather"
    /\ \A k \in 1..Len(tasks) : tasks[k].state = "done"
    /\ results' = ProcessResponses(tasks, 1, <<>>)
    /\ pc' = "returned"
    /\ UNCHANGED <<tasks, semaphore, findVars, fetchVars, orchVars, extractVars>>

NextBatch ==
    \/ \E k \in 1..Len(tasks) : Acquire(k)
    \/ \E k \in 1..Len(tasks) : FetchSingleRaises(k)
    \/ \E k \in 1..Len(tasks) : FetchSingleReturns(k)
    \/ Gather

\* The event loop runs a task that can run: a step that stays possible is
\* eventually taken.
SpecBatch == InitBatch /\ [][NextBatch]_vars /\ WF_vars(NextBatch)

\* C5: during batch_fetch_abis at most 5 single-item retrievals are inside
\* the semaphore-guarded section at any instant, and every candidate's
\* retrieval eventually runs to its end so that the batch completes.
C5_BoundedAndCompletes ==
    /\ [](Cardinality(InFlight) <= SEMAPHORE_LIMIT)
    /\ <>(pc = "returned" /\ \A k \in 1..Len(tasks) : tasks[k].state = "done")

\* five retrievals are in flight while a sixth candidate waits
C5_Witness ==
    /\ Cardinality(InFlight) = SEMAPHORE_LIMIT
    /\ \E k \in 1..Len(tasks) : tasks[k].state = "pending"

\* C6: a lookup that raises does not prevent any sibling lookup: at the
\* return of the batch every lookup that did not raise has its result in the
\* mapping under its address, the address of a lookup that raised is absent,
\* and the permits of ended lookups are released (free permits plus lookups
\* in flight always make 5).
C6_FailureIsolated ==
    /\ semaphore + Cardinality(InFlight) = SEMAPHORE_LIMIT
    /\ pc = "returned" =>
          /\ semaphore = SEMAPHORE_LIMIT
          /\ \A k \in 1..Len(tasks) :
                /\ tasks[k].state = "done"
                /\ ~tasks[k].exc =>
                      /\ tasks[k].address \in DOMAIN results
                      /\ results[tasks[k].address] = tasks[k].abi_data
                /\ tasks[k].exc => tasks[k].address \notin DOMAIN results

\* a batch of more candidates than permits has returned with a lookup that
\* raised and a later lookup whose result is in the mapping
C6_Witness ==
    /\ pc = "returned"
    /\ Len(tasks) > SEMAPHORE_LIMIT
    /\ tasks[1].exc
    /\ ~tasks[Len(tasks)].exc
    /\ tasks[Len(tasks)].address \in DOMAIN results

----------------------------------------------------------------------------
(* Properties of the collector as a whole *)

\* the candidates of the current work item whose fetch_abi has been called
\* and has not returned
OrchOutstanding ==
    IF pc \in { "fetch_abi", "explorer_returned" } THEN { c } ELSE {}

\* C16: the retrievals of one work item's candidates are dispatched
\* concurrently under a bound of 5: when the explorer answers for the first
\* candidate of a work item with at least two candidates, another candidate's
\* retrieval is outstanding too, and never more than 5 are.
C16_ConcurrentDispatch ==
    /\ Cardinality(OrchOutstanding) <= SEMAPHORE_LIMIT
    /\ (pc = "explorer_returned" /\ c = 1 /\ Len(contracts) >= 2) =>
          Cardinality(OrchOutstanding) >= 2

\* C17: the accumulated list is append-only: every step leaves its records as
\* a prefix of the new list; it changes only when process_protocol returns to
\* the loop; without a protocol-level exception the work item adds one record
\* per candidate of the resolver, in candidate order, and the work items are
\* taken in worklist order.
C17_AppendOnly ==
    /\ [][/\ Len(all_results') >= Len(all_results)
          /\ SubSeq(all_results', 1, Len(all_results)) = all_results]_vars
    /\ [][all_results' # all_results => (pc = "sleep" /\ pc' = "loop")]_vars
    /\ [][(pc = "sleep" /\ pc' = "loop") =>
            /\ Len(all_results') = Len(all_results) + Len(contracts)
            /\ \A k \in 1..Len(contracts) :
                  LET rec == all_results'[Len(all_results) + k]
                  IN  /\ rec.contract_address = contracts[k].address
                      /\ rec.contract_name = contracts[k].name
                      /\ rec.protocol = protocols[i].protocol
                      /\ rec.category = protocols[i].category
                      /\ rec.network = protocols[i].network
            /\ i' = i + 1]_vars
    /\ [][i' >= i]_vars

\* a finished run over aave and multichain: three records of aave's registry
\* candidates, in their order, then the record of multichain
C17_Witness ==
    /\ pc = "done"
    /\ Len(protocols) = 2
    /\ protocols[1].protocol = "aave"
    /\ protocols[2].protocol = "multichain"
    /\ Len(all_results) = 4
    /\ \A k \in 1..3 :
          /\ all_results[k].protocol = "aave"
          /\ all_results[k].contract_address = known_contracts["aave_ethereum"][k].address
    /\ all_results[4].protocol = "multichain"

SNAPSHOT_PATH == "data/intermediate_results"

\* C18: a snapshot is written after every 500 processed work items: when the
\* loop is at row i, the number of snapshots written is the number of rows
\* processed so far (the rows skipped for their network not counted) divided
\* by 500.
C18_SnapshotEvery500Processed ==
    pc = "loop" =>
        Cardinality(FilesAt(SNAPSHOT_PATH))
            = Cardinality(SupportedBefore(i)) \div SNAPSHOT_INTERVAL

\* the sample keys that occur in the text, whatever the case
SampleKeysIn(text) ==
    { k \in 1..Len(sample_abis) : Contains(lower(text), lower(sample_abis[k].key)) }

\* C20: in the fallback, when the candidate's address or its name contains a
\* sample key, whatever the case, the interface returned is that sample's: a
\* candidate named LendingPool whose explorer call fails gets the LendingPool
\* sample, not the generic interface.
C20_NameOrAddressMatchesSample ==
    (pc = "fetched" /\ TransportFailure(response)) =>
        LET matching == SampleKeysIn(contract_address) \cup SampleKeysIn(contract_name)
        IN  matching # {} =>
              abi_data = sample_abis[CHOOSE k \in matching : \A m \in matching : k <= m].data


\* the summary a finished run has written
Summary == files[Len(files)].data

\* the positions of the events of the records: (k, m) for the m-th event of
\* the k-th record
EventPositions(recs) ==
    UNION { { <<k, m>> : m \in 1..Len(recs[k].events) } : k \in 1..Len(recs) }

\* C24: the summary is an aggregate of the final result list: total_contracts
\* is the number of records, verified_contracts and unverified_contracts
\* count the records with verified "yes" and "no" and add up to
\* total_contracts, total_events is the sum of the lengths of the records'
\* events, the protocol, network and category figures are those of the
\* distinct values in the records; writing the summary leaves the result
\* list as it was.
C24_SummaryIsAggregate ==
    /\ [](pc = "done" =>
            /\ files[Len(files)].path = SUMMARY_PATH
            /\ Summary.total_contracts = Len(all_results)
            /\ Summary.verified_contracts =
                  Cardinality({ k \in 1..Len(all_results) : all_results[k].verified = "yes" })
            /\ Summary.unverified_contracts =
                  Cardinality({ k \in 1..Len(all_results) : all_results[k].verified = "no" })
            /\ Summary.verified_contracts + Summary.unverified_contracts
                  = Summary.total_contracts
            /\ Summary.total_events = Cardinality(EventPositions(all_results))
            /\ Summary.protocols_processed
                  = Cardinality({ p \in { w.protocol : w \in WorkItems } :
                        \E k \in 1..Len(all_results) : all_results[k].protocol = p })
            /\ Summary.networks_covered
                  = { n \in NETWORKS :
                        \E k \in 1..Len(all_results) : all_results[k].network = n }
            /\ Summary.categories_covered
                  = { g \in { w.category : w \in WorkItems } :
                        \E k \in 1..Len(all_results) : all_results[k].category = g })
    /\ [][pc' = "done" => all_results' = all_results]_vars

\* a finished run over two protocols with verified and unverified records and
\* more events than records with events
C24_Witness ==
    /\ pc = "done"
    /\ Summary.protocols_processed = 2
    /\ Summary.verified_contracts >= 1
    /\ Summary.unverified_contracts >= 1
    /\ Summary.total_events > Summary.verified_contracts

\* C26: every record of the accumulated list has verified "yes" or "no", a
\* record with verified "no" has no events, and a record gets verified "yes"
\* only when fetch_abi has returned a result whose verified is true and
\* extract_events has not raised on its interface.
C26_VerifiedField ==
    /\ [](\A k \in 1..Len(all_results) :
            /\ all_results[k].verified \in { "yes", "no" }
            /\ all_results[k].verified = "no" => all_results[k].events = <<>>)
    /\ [][\A k \in (Len(all_results) + 1)..Len(all_results') :
            all_results'[k] = protocol_results[k - Len(all_results)]]_vars
    /\ [][(Len(protocol_results') > Len(protocol_results)
              /\ protocol_results'[Len(protocol_results')].verified = "yes")
            => /\ pc = "fetched"
               /\ ~IsNone(abi_data)
               /\ abi_data.verified
               /\ abi_data.abi.py = "list" =>
                     \A m \in 1..Len(abi_data.abi.items) : abi_data.abi.items[m].py = "dict"]_vars

\* the accumulated list holds a record with verified "yes" and events and a
\* record with verified "no"
C26_Witness ==
    /\ \E k \in 1..Len(all_results) :
          all_results[k].verified = "yes" /\ all_results[k].events # <<>>
    /\ \E k \in 1..Len(all_results) : all_results[k].verified = "no"
----------------------------------------------------------------------------
(* event_extractor.py: the functions over signatures *)

\* the position of the first ch in s from position k on, 0 when there is none
RECURSIVE FindFrom(_, _, _)
FindFrom(s, ch, k) ==
    IF k > Len(s) THEN 0
    ELSE IF Ch(s, k) = ch THEN k
    ELSE FindFrom(s, ch, k + 1)

\* s.split(sep), sep being one character
RECURSIVE split(_, _)
split(s, sep) ==
    LET p == FindFrom(s, sep, 1)
    IN  IF p = 0 THEN <<s>>
        ELSE <<Prefix(s, p - 1)>> \o split(SubSeq(s, p + 1, Len(s)), sep)

RECURSIVE lstrip(_)
lstrip(s) ==
    IF Len(s) > 0 /\ Ch(s, 1) = " " THEN lstrip(SubSeq(s, 2, Len(s))) ELSE s

RECURSIVE rstrip(_)
rstrip(s) ==
    IF Len(s) > 0 /\ Ch(s, Len(s)) = " " THEN rstrip(SubSeq(s, 1, Len(s) - 1)) ELSE s

\* s.strip()
strip(s) == rstrip(lstrip(s))

\* len(s.split()): the number of maximal runs of characters that are not blank
RECURSIVE CountWords(_, _, _)
CountWords(s, k, inWord) ==
    IF k > Len(s) THEN 0
    ELSE IF Ch(s, k) = " " THEN CountWords(s, k + 1, FALSE)
    ELSE (IF inWord THEN 0 ELSE 1) + CountWords(s, k + 1, TRUE)

\* the test of one parameter in validate_event_signature, lines 179-180
valid_param(param) == param # "" /\ CountWords(param, 1, FALSE) >= 2

\* EventExtractor.validate_event_signature
validate_event_signature(signature) ==
    IF FindFrom(signature, "(", 1) = 0 \/ FindFrom(signature, ")", 1) = 0 THEN FALSE
    ELSE LET name_part == split(signature, "(")[1]
             params_part == split(split(signature, "(")[2], ")")[1]
         IN  IF strip(name_part) = "" THEN FALSE
             ELSE IF strip(params_part) # ""
                  THEN LET params == split(params_part, ",")
                       IN  \A k \in 1..Len(params) : valid_param(strip(params[k]))
                  ELSE TRUE

\* the keyword lists of categorize_events, in the order of the if/elif chain
CATEGORY_KEYWORDS ==
    << [category |-> "transfer", keywords |-> <<"transfer", "send", "receive">>],
       [category |-> "swap", keywords |-> <<"swap", "trade", "exchange">>],
       [category |-> "lending",
        keywords |-> <<"deposit", "withdraw", "borrow", "repay", "lend">>],
       [category |-> "staking", keywords |-> <<"stake", "unstake", "reward", "claim">>],
       [category |-> "governance", keywords |-> <<"vote", "proposal", "governance">>],
       [category |-> "bridge",
        keywords |-> <<"bridge", "lock", "unlock", "mint", "burn">>] >>

\* any(keyword in event_name for keyword in keywords)
AnyOf(event_name, keywords) ==
    \E k \in 1..Len(keywords) : Contains(event_name, keywords[k])

\* the if/elif chain with the lending test moved to the front
category_of_lending_first(event) ==
    LET event_name == lower(split(event, "(")[1])
    IN  IF AnyOf(event_name, CATEGORY_KEYWORDS[3].keywords) THEN "lending"
        ELSE IF AnyOf(event_name, CATEGORY_KEYWORDS[1].keywords) THEN "transfer"
        ELSE IF AnyOf(event_name, CATEGORY_KEYWORDS[2].keywords) THEN "swap"
        ELSE IF AnyOf(event_name, CATEGORY_KEYWORDS[4].keywords) THEN "staking"
        ELSE IF AnyOf(event_name, CATEGORY_KEYWORDS[5].keywords) THEN "governance"
        ELSE IF AnyOf(event_name, CATEGORY_KEYWORDS[6].keywords) THEN "bridge"
        ELSE "other"

\* categorize_events, lines 140-155: the category one signature is put in
category_of(event) ==
    LET event_name == lower(split(event, "(")[1])
    IN  IF AnyOf(event_name, CATEGORY_KEYWORDS[1].keywords) THEN "transfer"
        ELSE IF AnyOf(event_name, CATEGORY_KEYWORDS[2].keywords) THEN "swap"
        ELSE IF AnyOf(event_name, CATEGORY_KEYWORDS[3].keywords) THEN "lending"
        ELSE IF AnyOf(event_name, CATEGORY_KEYWORDS[4].keywords) THEN "staking"
        ELSE IF AnyOf(event_name, CATEGORY_KEYWORDS[5].keywords) THEN "governance"
        ELSE IF AnyOf(event_name, CATEGORY_KEYWORDS[6].keywords) THEN "bridge"
        ELSE "other"

CATEGORIES ==
    { "transfer", "swap", "lending", "staking", "governance", "bridge", "other" }

\* EventExtractor.categorize_events: each signature is appended, in turn, to
\* the list of its category
RECURSIVE CategorizeFrom(_, _, _)
CategorizeFrom(evs, k, acc) ==
    IF k > Len(evs) THEN acc
    ELSE LET cat == category_of(evs[k])
         IN  CategorizeFrom(evs, k + 1, [acc EXCEPT ![cat] = Append(@, evs[k])])

categorize_events(evs) == CategorizeFrom(evs, 1, [cat \in CATEGORIES |-> <<>>])

----------------------------------------------------------------------------
(* extract_events and validate_event_signature as functions of the ABI *)

\* Longest ABI given to extract_events
MaxEntries == 3

\* Entries of the ABIs: events with and without inputs, an event without a
\* name, an event with an input without a name (the fourth input of the
\* PairCreated sample), entries of other types, and an entry that is not a
\* dict.
AbiEntries ==
    { JDict("event", "Foo", << [name |-> "a", type |-> "uint256", indexed |-> TRUE],
                               [name |-> "b", type |-> "address", indexed |-> FALSE] >>),
      JDict("event", "Transfer", << [name |-> "from", type |-> "address", indexed |-> TRUE] >>),
      JDict("event", "Sync", <<>>),
      JDict("event", "", << [name |-> "a", type |-> "uint256", indexed |-> FALSE] >>),
      JDict("event", "PairCreated", << [name |-> "pair", type |-> "address", indexed |-> FALSE],
                                       [name |-> "", type |-> "uint256", indexed |-> FALSE] >>),
      JDict("function", "Foo", << [name |-> "a", type |-> "uint256", indexed |-> FALSE] >>),
      JDict("constructor", "", <<>>),
      JStr }

AbiArgs ==
    { JList(items) : items \in UNION { [1..n -> AbiEntries] : n \in 0..MaxEntries } }
        \cup { JObject, JStr }

InitExtract ==
    /\ pc = "extract"
    /\ abi_arg \in AbiArgs
    /\ signatures = <<>>
    /\ valid = <<>>
    /\ categories = <<>>
    /\ details = <<>>
    /\ IdleFind /\ IdleFetch /\ IdleOrch /\ IdleBatch

\* events = extract_events(abi); item.get on an entry that is not a dict
\* raises
ExtractEvents ==
    /\ pc = "extract"
    /\ LET extracted == extract_events(abi_arg)
       IN  IF extracted.raised
           THEN pc' = "raised" /\ UNCHANGED signatures
           ELSE pc' = "extracted" /\ signatures' = extracted.events
    /\ UNCHANGED <<abi_arg, valid, categories, details, findVars, fetchVars, orchVars, batchVars>>

\* validate_event_signature on each signature returned
ValidateSignatures ==
    /\ pc = "extracted"
    /\ valid' = [k \in 1..Len(signatures) |-> validate_event_signature(signatures[k])]
    /\ pc' = "validated"
    /\ UNCHANGED <<abi_arg, signatures, categories, details, findVars, fetchVars, orchVars,
                   batchVars>>

NextExtract == ExtractEvents \/ ValidateSignatures

SpecExtract == InitExtract /\ [][NextExtract]_vars

----------------------------------------------------------------------------
(* extract_events and get_event_details on the same ABI *)

\* details = get_event_details(abi), after extract_events(abi) has returned
GetEventDetails ==
    /\ pc = "extracted"
    /\ LET detailed == get_event_details(abi_arg)
       IN  IF detailed.raised
           THEN pc' = "details_raised" /\ UNCHANGED details
           ELSE pc' = "detailed" /\ details' = detailed.events
    /\ UNCHANGED <<abi_arg, signatures, valid, categories, findVars, fetchVars, orchVars,
                   batchVars>>

NextDetails == ExtractEvents \/ GetEventDetails

SpecDetails == InitExtract /\ [][NextDetails]_vars

----------------------------------------------------------------------------
(* categorize_events as a function of the signatures *)

\* Longest list given to categorize_events
MaxEvents == 3

\* Signatures given to categorize_events: one per category of the examples,
\* names that match keywords of two categories, a keyword that occurs in a
\* parameter only, and a name in capitals.
SignaturePool ==
    { "Transfer(from address indexed, to address indexed, value uint256)",
      "Deposit(reserve address indexed, amount uint256)",
      "VoteCast(voter address indexed)",
      "Foo(a uint256 indexed, b address)",
      "WithdrawAndSend(to address)",
      "SwapAndStake()",
      "Bar(transfer uint256)",
      "UNLOCK()" }

InitCategorize ==
    /\ pc = "categorize"
    /\ signatures \in UNION { [1..n -> SignaturePool] : n \in 0..MaxEvents }
    /\ abi_arg = NoneData
    /\ valid = <<>>
    /\ categories = <<>>
    /\ details = <<>>
    /\ IdleFind /\ IdleFetch /\ IdleOrch /\ IdleBatch

\* categories = categorize_events(events)
CategorizeEvents ==
    /\ pc = "categorize"
    /\ categories' = categorize_events(signatures)
    /\ pc' = "categorized"
    /\ UNCHANGED <<abi_arg, signatures, valid, details, findVars, fetchVars, orchVars, batchVars>>

NextCategorize == CategorizeEvents

SpecCategorize == InitCategorize /\ [][NextCategorize]_vars

----------------------------------------------------------------------------
(* Properties of the functions over signatures *)

IsNamedEvent(entry) == entry.type = "event" /\ entry.name # ""

WellFormedInputs(entry) ==
    \A k \in 1..Len(entry.inputs) :
        entry.inputs[k].name # "" /\ entry.inputs[k].type # ""

\* "p1, p2, ..." from input k on, each "<name> <type>" with " indexed" when
\* the input is indexed
RECURSIVE RenderedFrom(_, _)
RenderedFrom(inputs, k) ==
    IF k > Len(inputs) THEN ""
    ELSE (IF k > 1 THEN ", " ELSE "")
            \o inputs[k].name \o " " \o inputs[k].type
            \o (IF inputs[k].indexed THEN " indexed" ELSE "")
            \o RenderedFrom(inputs, k + 1)

Rendered(entry) == entry.name \o "(" \o RenderedFrom(entry.inputs, 1) \o ")"

\* C13: for an ABI whose entries are dicts, extract_events returns, in ABI
\* order, exactly the signatures of the entries whose type is "event" and whose
\* name is not empty; the other entries give nothing, and an ABI without such
\* entries, an empty ABI and an ABI that is not a list give the empty list.
C13_ExtractsNamedEvents ==
    /\ pc = "raised" => ~EntriesAreObjects(abi_arg)
    /\ pc = "extracted" =>
        IF abi_arg.py # "list" THEN signatures = <<>>
        ELSE LET named == SelectSeq(abi_arg.items, IsNamedEvent)
             IN  /\ Len(signatures) = Len(named)
                 /\ \A k \in 1..Len(named) :
                        /\ signatures[k] = format_event_signature(named[k])
                        /\ Prefix(signatures[k], Len(named[k].name) + 1)
                              = named[k].name \o "("
                 /\ (\A k \in 1..Len(abi_arg.items) : abi_arg.items[k].type # "event")
                        => signatures = <<>>

\* an ABI of a function, an event without a name and two named events: the
\* two signatures, in the order of the ABI
C13_Witness ==
    /\ pc = "extracted"
    /\ abi_arg.py = "list"
    /\ Len(abi_arg.items) = 3
    /\ abi_arg.items[1].name = "Transfer"
    /\ abi_arg.items[2].name = ""
    /\ abi_arg.items[3].name = "Foo" /\ abi_arg.items[3].type = "event"
    /\ signatures = << "Transfer(from address indexed)",
                       "Foo(a uint256 indexed, b address)" >>

\* C14: an event entry with a name and inputs that all have a name and a type
\* gives exactly one signature Name(p1, p2, ...), the parameters in input
\* order, each "<name> <type>" followed by " indexed" exactly when the input
\* is indexed, and validate_event_signature accepts that signature; Foo with
\* a:uint256 indexed, b:address gives "Foo(a uint256 indexed, b address)".
C14_RoundTrip ==
    (pc = "validated" /\ abi_arg.py = "list") =>
        LET named == SelectSeq(abi_arg.items, IsNamedEvent)
        IN  /\ Len(signatures) = Len(named)
            /\ Len(valid) = Len(named)
            /\ \A k \in 1..Len(named) :
                  WellFormedInputs(named[k]) =>
                      signatures[k] = Rendered(named[k]) /\ valid[k]
            /\ \A k \in 1..Len(named) :
                  (named[k].name = "Foo") =>
                      signatures[k] = "Foo(a uint256 indexed, b address)" /\ valid[k]

\* the ABI of the one event Foo: its signature, accepted
C14_Witness ==
    /\ pc = "validated"
    /\ abi_arg.py = "list"
    /\ Len(abi_arg.items) = 1
    /\ signatures = << "Foo(a uint256 indexed, b address)" >>
    /\ valid = << TRUE >>

\* C23: get_event_details applies the filter of extract_events: on every ABI
\* the two return the same number of entries, in the same order, and the
\* signature of the k-th detail is the k-th signature extract_events returns.
C23_DetailsMatchSignatures ==
    pc = "detailed" =>
        /\ Len(details) = Len(signatures)
        /\ \A k \in 1..Len(details) :
              k <= Len(signatures) => details[k].signature = signatures[k]

\* C25: every signature extract_events returns is accepted by
\* validate_event_signature, whatever the ABI, entries whose inputs have an
\* empty name (the last input of the PairCreated sample) included.
C25_ExtractedSignaturesValidate ==
    pc = "validated" =>
        /\ Len(valid) = Len(signatures)
        /\ \A k \in 1..Len(valid) : valid[k]

\* the name of a signature: what precedes the first "(", lower-cased
BaseName(event) ==
    LET p == FindFrom(event, "(", 1)
    IN  lower(IF p = 0 THEN event ELSE Prefix(event, p - 1))

\* the first category, in the order transfer, swap, lending, staking,
\* governance, bridge, one of whose keywords occurs in the base name
ExpectedCategory(event) ==
    LET matching == { j \in 1..Len(CATEGORY_KEYWORDS) :
                        AnyOf(BaseName(event), CATEGORY_KEYWORDS[j].keywords) }
    IN  IF matching = {} THEN "other"
        ELSE CATEGORY_KEYWORDS[CHOOSE j \in matching : \A m \in matching : j <= m].category

\* C15: categorize_events puts every signature in exactly one of the lists
\* transfer, swap, lending, staking, governance, bridge, other: the lengths add
\* up to the length of the input, each list keeps the input's order, and the
\* list is that of the first category in that order with a keyword in the
\* lower-cased base name, other when there is none; Transfer goes to transfer,
\* Deposit to lending, VoteCast to governance and Foo to other.
C15_CategorizesOnce ==
    pc = "categorized" =>
        /\ DOMAIN categories = CATEGORIES
        /\ Len(categories["transfer"]) + Len(categories["swap"])
              + Len(categories["lending"]) + Len(categories["staking"])
              + Len(categories["governance"]) + Len(categories["bridge"])
              + Len(categories["other"]) = Len(signatures)
        /\ \A cat \in CATEGORIES :
              LET InCategory(event) == ExpectedCategory(event) = cat
              IN  categories[cat] = SelectSeq(signatures, InCategory)
        /\ \A k \in 1..Len(signatures) :
              /\ Prefix(signatures[k], 9) = "Transfer("
                    => \E m \in 1..Len(categories["transfer"]) :
                          categories["transfer"][m] = signatures[k]
              /\ Prefix(signatures[k], 8) = "Deposit("
                    => \E m \in 1..Len(categories["lending"]) :
                          categories["lending"][m] = signatures[k]
              /\ Prefix(signatures[k], 9) = "VoteCast("
                    => \E m \in 1..Len(categories["governance"]) :
                          categories["governance"][m] = signatures[k]
              /\ Prefix(signatures[k], 4) = "Foo("
                    => \E m \in 1..Len(categories["other"]) :
                          categories["other"][m] = signatures[k]

\* a name with a lending keyword and a transfer keyword goes to transfer, in
\* front of a later Transfer
C15_Witness ==
    /\ pc = "categorized"
    /\ signatures = << "WithdrawAndSend(to address)",
                       "Deposit(reserve address indexed, amount uint256)",
                       "Transfer(from address indexed, to address indexed, value uint256)" >>
    /\ categories["transfer"] =
          << "WithdrawAndSend(to address)",
             "Transfer(from address indexed, to address indexed, value uint256)" >>
    /\ categories["lending"] = << "Deposit(reserve address indexed, amount uint256)" >>

====
